---- MODULE Spec2Model ----
(***************************************************************************)
(* Revisioned-entity model of the SudoSOS back-end: Product and Container  *)
(* base records, their pending drafts (UpdatedProduct, UpdatedContainer)   *)
(* and their immutable revisions, as written by ProductService and the two *)
(* ContainerService variants of the repository.  Every handler is split at *)
(* its awaits: one step per database round trip, so the states between the *)
(* writes of one handler are states of the model.                          *)
(***************************************************************************)
EXTENDS Integers, Sequences, FiniteSets, TLC

VARIABLES db, reqs, approvals, led, freq, http

vars == <<db, reqs, approvals, led, freq, http>>

(* ------------------------------ bounds --------------------------------- *)
MaxProducts == 1
MaxContainers == 1
MaxRevision == 2

ProductIds == 1..MaxProducts
ContainerIds == 1..MaxContainers
Slots == {1}

(* Request bodies the handlers are called with. *)
ProductRequests == {[name |-> "a", price |-> 1], [name |-> "b", price |-> 2]}
\* The second body also lists a product id that is never created.
ContainerRequests ==
  {[name |-> "x", products |-> {1}],
   [name |-> "y", products |-> 1..(MaxProducts + 1)]}
PublicFlags == {0, 1}
Services == {"auto", "strict"}

(* ------------------------------ values --------------------------------- *)
\* A NULL column (Product.currentRevision before the first approval).
Null == 0
\* A property read from an object that does not have it.
Undefined == -1
UndefinedName == "undefined"

None == << >>
Some(x) == <<x>>

\* DineroTransformer.Instance.from(amount): integer minor units to a Dinero object.
DineroTransformer_from(amount) ==
  [amount |-> amount, precision |-> 2, currency |-> "EUR"]
\* DineroTransformer.Instance.to(dinero): the integer stored in the column.
DineroTransformer_to(d) == d.amount

Remove(f, k) == [x \in DOMAIN f \ {k} |-> f[x]]
Put(f, k, v) == (k :> v) @@ f

(* ------------------------------ store ---------------------------------- *)
EmptyDb ==
  [Product |-> << >>, UpdatedProduct |-> << >>, ProductRevision |-> << >>,
   Container |-> << >>, UpdatedContainer |-> << >>, ContainerRevision |-> << >>]

\* base.currentRevision ? base.currentRevision + 1 : 1
NextRevisionStuck(cur) == IF cur /= Null THEN cur ELSE 1
NextRevision(cur) == IF cur /= Null THEN cur + 1 ELSE 1

\* ProductRevision's @BeforeUpdate denyUpdate: saving over a persisted
\* revision whose columns differ throws; saving identical columns issues no
\* UPDATE.  (ContainerRevision.save is called without any such guard in the
\* services, and is modelled as the plain save it is called as.)
denyUpdate(table, key, row) == key \in DOMAIN table /\ table[key] /= row

(* ----------------------------- requests -------------------------------- *)
IdleRequest ==
  [op |-> "none", svc |-> "none", id |-> 0, arg |-> None, pc |-> "done",
   base |-> None, update |-> None, productIds |-> {}, found |-> {},
   subs |-> << >>, out |-> "none", resp |-> None, pre |-> EmptyDb]

NewRequest(op, svc, id, arg, d) ==
  [IdleRequest EXCEPT !.op = op, !.svc = svc, !.id = id, !.arg = arg,
                      !.pc = "start", !.out = "pending", !.pre = d]

Finish(r, out, resp) == [r EXCEPT !.pc = "done", !.out = out, !.resp = resp]

\* An HTTP exchange: the handlers of the route still to run, what the
\* middleware decided, whether the route's handler was invoked, the response.
IdleExchange ==
  [route |-> "none", req |-> None, chain |-> << >>, policy |-> None,
   invoked |-> FALSE, status |-> 0, body |-> "none", pre |-> EmptyDb]

(* --------------------------- ProductService ---------------------------- *)
asProductResponse(rawProduct) ==
  [id |-> rawProduct.id,
   revision |-> rawProduct.revision,
   name |-> rawProduct.name,
   price |-> DineroTransformer_from(rawProduct.price)]

\* getProducts({ productId }): product joined with its current revision.
getProducts(d, productId) ==
  IF productId \in DOMAIN d.Product
     /\ <<productId, d.Product[productId].currentRevision>> \in DOMAIN d.ProductRevision
  THEN LET row == d.ProductRevision[<<productId, d.Product[productId].currentRevision>>]
       IN <<asProductResponse([id |-> productId,
                               revision |-> d.Product[productId].currentRevision,
                               name |-> row.name, price |-> row.price])>>
  ELSE << >>

\* getUpdatedProducts({ productId }): product joined with its pending draft.
getUpdatedProducts(d, productId) ==
  IF productId \in DOMAIN d.Product /\ productId \in DOMAIN d.UpdatedProduct
  THEN LET row == d.UpdatedProduct[productId]
       IN <<asProductResponse([id |-> productId, revision |-> Undefined,
                               name |-> row.name, price |-> row.price])>>
  ELSE << >>

\* The columns of an UpdatedProduct built from a ProductRequest.
UpdatedProductRow(product) ==
  [name |-> product.name,
   price |-> DineroTransformer_to(DineroTransformer_from(product.price))]

\* updatedProduct.save(): the draft table is keyed by the product, so saving
\* a draft for a product that has one overwrites it.
saveUpdatedProductKeep(d, productId, row) ==
  IF productId \in DOMAIN d.UpdatedProduct THEN d
  ELSE [d EXCEPT !.UpdatedProduct = Put(@, productId, row)]
saveUpdatedProduct(d, productId, row) ==
  [d EXCEPT !.UpdatedProduct = Put(@, productId, row)]

\* Object.assign(new Product(), { owner }): no current revision yet.
NewProductRevised == [currentRevision |-> 1]
NewProduct == [currentRevision |-> Null]

createProduct_step(d, r) ==
  CASE r.pc = "start" ->
         LET id == Cardinality(DOMAIN d.Product) + 1
         IN [db |-> [d EXCEPT !.Product = Put(@, id, NewProduct)],
             r |-> [r EXCEPT !.id = id, !.pc = "saveUpdate"]]
    [] r.pc = "saveUpdate" ->
         [db |-> saveUpdatedProduct(d, r.id, UpdatedProductRow(r.arg[1])),
          r |-> [r EXCEPT !.pc = "return"]]
    [] OTHER ->
         [db |-> d, r |-> Finish(r, "ok", getUpdatedProducts(d, r.id))]

updateProduct_step(d, r) ==
  CASE r.pc = "start" ->
         IF r.id \notin DOMAIN d.Product
         THEN [db |-> d, r |-> Finish(r, "notfound", None)]
         ELSE [db |-> d, r |-> [r EXCEPT !.base = Some(d.Product[r.id]),
                                         !.pc = "saveUpdate"]]
    [] r.pc = "saveUpdate" ->
         [db |-> saveUpdatedProduct(d, r.id, UpdatedProductRow(r.arg[1])),
          r |-> [r EXCEPT !.pc = "return"]]
    [] OTHER ->
         [db |-> d, r |-> Finish(r, "ok", getUpdatedProducts(d, r.id))]

\* if (!base || !rawUpdateProduct) return undefined;
approveProductGuardNoDraftCheck(d, productId) == productId \in DOMAIN d.Product
approveProductGuard(d, productId) ==
  productId \in DOMAIN d.Product /\ productId \in DOMAIN d.UpdatedProduct

\* The columns of the ProductRevision built from the draft's response.
ProductRevisionRow(d, productId, update) ==
  [name |-> update.name,
   price |-> DineroTransformer_to(DineroTransformer_from(update.price.amount))]

approveProductUpdate_step(d, r) ==
  CASE r.pc = "start" ->
         IF ~approveProductGuard(d, r.id)
         THEN [db |-> d, r |-> Finish(r, "notfound", None)]
         ELSE [db |-> d, r |-> [r EXCEPT !.base = Some(d.Product[r.id]),
                                         !.pc = "getUpdate"]]
    [] r.pc = "getUpdate" ->
         LET update == getUpdatedProducts(d, r.id)
         IN IF update = << >>
            THEN [db |-> d, r |-> Finish(r, "error", None)]
            ELSE [db |-> d, r |-> [r EXCEPT !.update = Some(update[1]),
                                            !.pc = "saveRevision"]]
    [] r.pc = "saveRevision" ->
         LET key == <<r.id, NextRevision(r.base[1].currentRevision)>>
             row == ProductRevisionRow(d, r.id, r.update[1])
         IN IF denyUpdate(d.ProductRevision, key, row)
            THEN [db |-> d, r |-> Finish(r, "error", None)]
            ELSE [db |-> [d EXCEPT !.ProductRevision = Put(@, key, row)],
                  r |-> [r EXCEPT !.pc = "saveBase"]]
    [] r.pc = "saveBase" ->
         [db |-> [d EXCEPT !.Product[r.id] =
                     [r.base[1] EXCEPT !.currentRevision =
                                          NextRevision(r.base[1].currentRevision)]],
          r |-> [r EXCEPT !.pc = "deleteUpdate"]]
    [] r.pc = "deleteUpdate" ->
         [db |-> [d EXCEPT !.UpdatedProduct = Remove(@, r.id)],
          r |-> [r EXCEPT !.pc = "return"]]
    [] OTHER ->
         [db |-> d, r |-> Finish(r, "ok", getProducts(d, r.id))]

(* -------------------------- ContainerService --------------------------- *)
\* !!x of a raw column value.
Truthy(x) == x /= 0 /\ x /= Undefined

\* A raw row of buildGetContainersQuery.  The auto-approving service aliases
\* its columns container_id, container_public, ...; the strict service aliases
\* them id, public, ...  A key the query does not select reads as undefined.
RawContainer(svc, id, base, revision, name) ==
  IF svc = "auto"
  THEN [id |-> Undefined, public |-> Undefined, revision |-> Undefined,
        name |-> UndefinedName, container_id |-> id,
        container_public |-> base.public, container_revision |-> revision,
        container_name |-> name]
  ELSE [id |-> id, public |-> base.public, revision |-> revision, name |-> name,
        container_id |-> Undefined, container_public |-> Undefined,
        container_revision |-> Undefined, container_name |-> UndefinedName]

\* A raw row of buildGetUpdatedContainersQuery (both services alias id, public, name).
RawUpdatedContainer(id, base, name) ==
  [id |-> id, public |-> base.public, revision |-> Undefined, name |-> name,
   container_id |-> Undefined, container_public |-> Undefined,
   container_revision |-> Undefined, container_name |-> UndefinedName]

asContainerResponse_auto(rawContainer) ==
  [id |-> rawContainer.container_public,
   revision |-> rawContainer.container_revision,
   name |-> rawContainer.container_name,
   public |-> Truthy(rawContainer.container_public),
   products |-> {}]

asContainerResponse_strict(rawContainer) ==
  [id |-> rawContainer.id,
   revision |-> rawContainer.revision,
   name |-> rawContainer.name,
   public |-> Truthy(rawContainer.public),
   products |-> {}]

asContainerResponse(svc, rawContainer) ==
  IF svc = "auto" THEN asContainerResponse_auto(rawContainer)
  ELSE asContainerResponse_strict(rawContainer)

\* getContainers({ containerId }).records: the container joined with its
\* current revision.
getContainers(svc, d, containerId) ==
  IF containerId \in DOMAIN d.Container
     /\ <<containerId, d.Container[containerId].currentRevision>>
          \in DOMAIN d.ContainerRevision
  THEN LET base == d.Container[containerId]
           row == d.ContainerRevision[<<containerId, base.currentRevision>>]
       IN <<asContainerResponse(svc,
              RawContainer(svc, containerId, base, base.currentRevision, row.name))>>
  ELSE << >>

\* getUpdatedContainers({ containerId }).records: the container joined with its draft.
getUpdatedContainers(svc, d, containerId) ==
  IF containerId \in DOMAIN d.Container /\ containerId \in DOMAIN d.UpdatedContainer
  THEN <<asContainerResponse(svc,
           RawUpdatedContainer(containerId, d.Container[containerId],
                               d.UpdatedContainer[containerId].name))>>
  ELSE << >>

\* ProductService.getProducts({ containerId, updatedContainer }): with a draft
\* container the current revision of each listed product; otherwise the product
\* revisions pinned by the container's current revision.
getContainerProducts(d, containerId, updated) ==
  IF updated
  THEN IF containerId \in DOMAIN d.UpdatedContainer
       THEN {getProducts(d, p)[1] :
               p \in {q \in d.UpdatedContainer[containerId].products :
                        getProducts(d, q) /= << >>}}
       ELSE {}
  ELSE IF containerId \in DOMAIN d.Container
          /\ <<containerId, d.Container[containerId].currentRevision>>
               \in DOMAIN d.ContainerRevision
       THEN LET pinned == d.ContainerRevision[
                            <<containerId, d.Container[containerId].currentRevision>>].products
            IN {asProductResponse([id |-> k[1], revision |-> k[2],
                                   name |-> d.ProductRevision[k].name,
                                   price |-> d.ProductRevision[k].price]) :
                  k \in {j \in pinned : j \in DOMAIN d.ProductRevision}}
       ELSE {}

\* getProductsResponse: first the container record, then its products.
getProductsResponse_step(d, r, updated) ==
  IF r.pc = "returnContainer"
  THEN LET records == IF updated THEN getUpdatedContainers(r.svc, d, r.id)
                      ELSE getContainers(r.svc, d, r.id)
       IN IF records = << >>
          THEN [db |-> d, r |-> Finish(r, "error", None)]
          ELSE [db |-> d, r |-> [r EXCEPT !.resp = Some(records[1]),
                                          !.pc = "returnProducts"]]
  ELSE [db |-> d,
        r |-> Finish(r, "ok",
                Some([r.resp[1] EXCEPT !.products =
                                         getContainerProducts(d, r.id, updated)]))]

\* products = result.filter((p) => p): the listed ids that resolve to a product.
ResolveProductsAll(d, ids) == ids
ResolveProducts(d, ids) == {p \in ids : p \in DOMAIN d.Product}

saveUpdatedContainer(d, containerId, row) ==
  [d EXCEPT !.UpdatedContainer = Put(@, containerId, row)]

updateContainer_step(d, r) ==
  CASE r.pc \in {"start", "findBase"} ->
         IF r.id \notin DOMAIN d.Container
         THEN [db |-> d, r |-> Finish(r, "notfound", None)]
         ELSE [db |-> d,
               r |-> [r EXCEPT !.base = Some(d.Container[r.id]),
                               !.found = ResolveProducts(d, r.arg[1].products),
                               !.pc = "saveUpdate"]]
    [] r.pc = "saveUpdate" ->
         [db |-> saveUpdatedContainer(d, r.id,
                   [name |-> r.arg[1].name, products |-> r.found]),
          r |-> [r EXCEPT !.pc = "returnContainer"]]
    [] OTHER -> getProductsResponse_step(d, r, TRUE)

createContainer_step(d, r) ==
  IF r.pc = "start"
  THEN LET id == Cardinality(DOMAIN d.Container) + 1
       IN [db |-> [d EXCEPT !.Container =
                      Put(@, id, [currentRevision |-> Null, public |-> r.arg[1].public])],
           r |-> [r EXCEPT !.id = id, !.pc = "findBase"]]
  ELSE updateContainer_step(d, r)

\* if (!base || !rawContainerUpdate) return undefined;
approveContainerGuard(d, containerId) ==
  containerId \in DOMAIN d.Container /\ containerId \in DOMAIN d.UpdatedContainer

\* rawContainerUpdate.products.map((product) =>
\*   ({ revision: product.currentRevision, product: { id: product.id } }))
DraftProductIds(d, products) ==
  {<<p, d.Product[p].currentRevision>> : p \in {q \in products : q \in DOMAIN d.Product}}

\* UpdatedProduct.findByIds(productIds): the listed products that have a pending draft.
findUpdatedProductsNone(d, productIds) == {}
findUpdatedProducts(d, productIds) ==
  {k[1] : k \in {j \in productIds : j[1] \in DOMAIN d.UpdatedProduct}}

\* ProductRevision.findByIds(productIds): the listed (product, revision) keys
\* that are persisted; a NULL revision matches no row.
findProductRevisions(d, productIds) ==
  {k \in productIds : k \in DOMAIN d.ProductRevision}

\* .then((up) => productIds.push({ revision: up.revision, product: { id: up.id } }))
pushApproved(productIds, up) == productIds \cup {<<up.id, up.revision>>}

\* One step of the nested approveProductUpdate(p) of an auto-approving
\* container approval; the container approval goes on once every nested
\* approval has settled, and rejects if one of them rejected or resolved to
\* undefined.
Settle(r) ==
  IF \E q \in DOMAIN r.subs : r.subs[q].pc /= "done" THEN r
  ELSE IF \A q \in DOMAIN r.subs : r.subs[q].out = "ok" /\ r.subs[q].resp /= << >>
       THEN [r EXCEPT !.pc = "findRevisions"]
       ELSE Finish(r, "error", None)

approveNested_step(d, r, p) ==
  LET x == approveProductUpdate_step(d, r.subs[p])
      c == x.r
      pushed == IF c.pc = "done" /\ c.out = "ok" /\ c.resp /= << >>
                THEN pushApproved(r.productIds, c.resp[1])
                ELSE r.productIds
  IN [db |-> x.db,
      r |-> Settle([r EXCEPT !.subs[p] = c, !.productIds = pushed])]

NextNested(r) ==
  CHOOSE p \in DOMAIN r.subs :
    /\ r.subs[p].pc /= "done"
    /\ \A q \in DOMAIN r.subs : r.subs[q].pc /= "done" => p <= q

approveContainerUpdate_step(d, r) ==
  CASE r.pc = "start" ->
         IF ~approveContainerGuard(d, r.id)
         THEN [db |-> d, r |-> Finish(r, "notfound", None)]
         ELSE [db |-> d,
               r |-> [r EXCEPT !.base = Some(d.Container[r.id]),
                               !.update = Some(d.UpdatedContainer[r.id]),
                               !.productIds =
                                  DraftProductIds(d, d.UpdatedContainer[r.id].products),
                               !.pc = "findUpdated"]]
    [] r.pc = "findUpdated" ->
         LET updatedProducts == findUpdatedProducts(d, r.productIds)
         IN IF updatedProducts = {}
            THEN [db |-> d, r |-> [r EXCEPT !.pc = "findRevisions"]]
            ELSE IF r.svc = "strict"
                 THEN [db |-> d, r |-> Finish(r, "error", None)]
                 ELSE [db |-> d,
                       r |-> [r EXCEPT
                                !.subs = [p \in updatedProducts |->
                                            NewRequest("approveProductUpdate", "none",
                                                       p, None, d)],
                                !.pc = "approveProducts"]]
    [] r.pc = "approveProducts" -> approveNested_step(d, r, NextNested(r))
    [] r.pc = "findRevisions" ->
         [db |-> d, r |-> [r EXCEPT !.found = findProductRevisions(d, r.productIds),
                                   !.pc = "saveRevision"]]
    [] r.pc = "saveRevision" ->
         LET key == <<r.id, NextRevision(r.base[1].currentRevision)>>
             row == [name |-> r.update[1].name, products |-> r.found]
         IN [db |-> [d EXCEPT !.ContainerRevision = Put(@, key, row)],
             r |-> [r EXCEPT !.pc = "saveBase"]]
    [] r.pc = "saveBase" ->
         [db |-> [d EXCEPT !.Container[r.id] =
                     [r.base[1] EXCEPT !.currentRevision =
                                          NextRevision(r.base[1].currentRevision)]],
          r |-> [r EXCEPT !.pc = "deleteUpdate"]]
    [] r.pc = "deleteUpdate" ->
         [db |-> [d EXCEPT !.UpdatedContainer = Remove(@, r.id)],
          r |-> [r EXCEPT !.pc = "returnContainer"]]
    [] OTHER -> getProductsResponse_step(d, r, FALSE)

(* ------------------- a handler run to completion ----------------------- *)
Step(d, r) ==
  CASE r.op = "createProduct" -> createProduct_step(d, r)
    [] r.op = "updateProduct" -> updateProduct_step(d, r)
    [] r.op = "approveProductUpdate" -> approveProductUpdate_step(d, r)
    [] r.op = "createContainer" -> createContainer_step(d, r)
    [] r.op = "updateContainer" -> updateContainer_step(d, r)
    [] OTHER -> approveContainerUpdate_step(d, r)

RECURSIVE Run(_, _)
Run(d, r) ==
  IF r.pc = "done" THEN [db |-> d, r |-> r]
  ELSE LET x == Step(d, r) IN Run(x.db, x.r)

\* The outcome and the resulting store of approveContainerUpdate(containerId)
\* of service svc, run alone from store d.
ApproveContainerOutcome(svc, d, containerId) ==
  LET x == Run(d, NewRequest("approveContainerUpdate", svc, containerId, None, d))
  IN [out |-> x.r.out, db |-> x.db]

(* ------------------------- ledger and fines ---------------------------- *)
MaxUsers == 2
MaxTime == 1
MaxTransfers == 2
MaxEvents == 2
\* The calls that may write, per behaviour.
MaxCalls == 4

UserIds == 1..MaxUsers
\* An id no User row has.
UnknownUser == MaxUsers + 1
UserTypeOf(u) == IF u = 1 THEN "MEMBER" ELSE "LOCAL_USER"

\* The tables of the fine engine; currentFines is the User.currentFines
\* column, seq the last generated primary key of each table (a key is never
\* handed out twice), now the clock createdAt is taken from.
EmptyLedger ==
  [Transfer |-> << >>, Transaction |-> << >>, Fine |-> << >>,
   UserFineGroup |-> << >>, FineHandoutEvent |-> << >>,
   currentFines |-> [u \in UserIds |-> Null],
   seq |-> [Transfer |-> 0, Transaction |-> 0, Fine |-> 0, UserFineGroup |-> 0,
            FineHandoutEvent |-> 0],
   now |-> 0]

\* The rows of a ledger, without the clock and the key generators.
Tables(l) == [l EXCEPT !.now = 0, !.seq = EmptyLedger.seq]

MaxId(f) == IF DOMAIN f = {} THEN 0 ELSE CHOOSE x \in DOMAIN f : \A y \in DOMAIN f : y <= x
\* Generated primary key of the next inserted row.
NextId(l, table) == l.seq[table] + 1
Insert(l, table, row) ==
  [l EXCEPT ![table] = Put(@, NextId(l, table), row), !.seq[table] = @ + 1]

Min(a, b) == IF a <= b THEN a ELSE b
Max(a, b) == IF a >= b THEN a ELSE b

RECURSIVE SumAmounts(_, _)
SumAmounts(f, S) ==
  IF S = {} THEN 0
  ELSE LET x == CHOOSE y \in S : TRUE
       IN f[x].amount + SumAmounts(f, S \ {x})

\* A transaction's sub-transactions, each [toId, amount]: the value of those
\* paid to userId, and the transaction's total value.
RECURSIVE SubTransactionValue(_, _)
SubTransactionValue(subTransactions, S) ==
  IF S = {} THEN 0
  ELSE LET i == CHOOSE j \in S : TRUE
       IN subTransactions[i].amount + SubTransactionValue(subTransactions, S \ {i})
ValueTo(transaction, userId) ==
  SubTransactionValue(transaction.subTransactions,
                      {i \in DOMAIN transaction.subTransactions :
                         transaction.subTransactions[i].toId = userId})
TotalValue(transaction) ==
  SubTransactionValue(transaction.subTransactions, DOMAIN transaction.subTransactions)

RECURSIVE SumTransactions(_, _, _)
SumTransactions(l, S, userId) ==
  IF S = {} THEN 0
  ELSE LET x == CHOOSE y \in S : TRUE
           tr == l.Transaction[x]
       IN ValueTo(tr, userId)
          - (IF tr.fromId = userId THEN TotalValue(tr) ELSE 0)
          + SumTransactions(l, S \ {x}, userId)

\* BalanceService.getBalance(id, date): transfers to the user minus transfers
\* from the user, plus the sub-transactions paid to the user minus the
\* transactions the user paid, dated at or before date.
getBalanceOfTransfers(l, userId, date) ==
  SumAmounts(l.Transfer, {t \in DOMAIN l.Transfer :
                            l.Transfer[t].toId = userId /\ l.Transfer[t].createdAt <= date})
  - SumAmounts(l.Transfer, {t \in DOMAIN l.Transfer :
                              l.Transfer[t].fromId = userId /\ l.Transfer[t].createdAt <= date})
getBalance(l, userId, date) ==
  SumAmounts(l.Transfer, {t \in DOMAIN l.Transfer :
                            l.Transfer[t].toId = userId /\ l.Transfer[t].createdAt <= date})
  - SumAmounts(l.Transfer, {t \in DOMAIN l.Transfer :
                              l.Transfer[t].fromId = userId /\ l.Transfer[t].createdAt <= date})
  + SumTransactions(l, {x \in DOMAIN l.Transaction : l.Transaction[x].createdAt <= date},
                    userId)

\* BalanceService.getBalances({ ids, userTypes, date, maxBalance }).records:
\* one record per selected user, date defaulting to now, restricted to the
\* balances below maxBalance when it is given.
getBalances(l, params) ==
  LET date == IF params.date = None THEN l.now ELSE params.date[1]
      users == {u \in UserIds :
                  /\ params.ids = None \/ u \in params.ids[1]
                  /\ params.userTypes = None \/ UserTypeOf(u) \in params.userTypes[1]}
      records == {[id |-> u, amount |-> DineroTransformer_from(getBalance(l, u, date))] :
                    u \in users}
  IN {b \in records : params.maxBalance = None \/ b.amount.amount < params.maxBalance[1]}

\* Math.max(Math.min(Math.floor(-balance.amount / 500) * 100, 500), 0)
calculateFineUncapped(balance) ==
  DineroTransformer_from(Max(((-balance.amount) \div 500) * 100, 0))
calculateFine(balance) ==
  DineroTransformer_from(Max(Min(((-balance.amount) \div 500) * 100, 500), 0))

\* maxBalance: DineroTransformer.Instance.from(-500)
DebtorThreshold == -500

\* user.currentFines loaded as a relation: the referenced group, if that row exists.
CurrentFines(l, userId) ==
  IF l.currentFines[userId] \in DOMAIN l.UserFineGroup THEN l.currentFines[userId]
  ELSE Null

\* userFineGroup.fines
GroupFines(l, group) == {f \in DOMAIN l.Fine : l.Fine[f].userFineGroup = group}

\* Transfer's @AfterInsert validateDebtPaid.
validateDebtPaidAlways(l, transfer) ==
  IF transfer.toId = Null THEN l
  ELSE IF CurrentFines(l, transfer.toId) = Null THEN l
  ELSE [l EXCEPT !.currentFines[transfer.toId] = Null]
validateDebtPaid(l, transfer) ==
  IF transfer.toId = Null THEN l
  ELSE IF CurrentFines(l, transfer.toId) = Null THEN l
  ELSE IF getBalance(l, transfer.toId, l.now) >= 0
       THEN [l EXCEPT !.currentFines[transfer.toId] = Null]
       ELSE l

\* TransferService.createTransfer(request): a transfer needs a source or a
\* destination; the saved row gets the next id and runs the insert listener.
createTransferResult(l, req) ==
  IF req.fromId = Null /\ req.toId = Null
  THEN [led |-> l, id |-> Null, ok |-> FALSE]
  ELSE LET id == NextId(l, "Transfer")
           row == [fromId |-> req.fromId, toId |-> req.toId,
                   amount |-> req.amount, createdAt |-> l.now]
           saved == Insert(l, "Transfer", row)
       IN [led |-> validateDebtPaid(saved, row), id |-> id, ok |-> TRUE]

\* calculateFinesOnDate({ userTypes, userIds, referenceDate })
calculateFinesOnDateNoRecheck(l, userTypes, userIds, referenceDate) ==
  {[id |-> u.id, amount |-> calculateFine(u.amount)] :
     u \in getBalances(l, [maxBalance |-> Some(DebtorThreshold), date |-> referenceDate,
                           userTypes |-> userTypes, ids |-> userIds])}
calculateFinesOnDate(l, userTypes, userIds, referenceDate) ==
  LET debtorsOnReferenceDate ==
        getBalances(l, [maxBalance |-> Some(DebtorThreshold), date |-> referenceDate,
                        userTypes |-> userTypes, ids |-> userIds])
      debtorsNow ==
        getBalances(l, [maxBalance |-> Some(DebtorThreshold), date |-> None,
                        userTypes |-> userTypes, ids |-> userIds])
      debtorsNowIds == {b.id : b \in debtorsNow}
      userBalancesToFine == {b \in debtorsOnReferenceDate : b.id \in debtorsNowIds}
  IN {[id |-> u.id, amount |-> calculateFine(u.amount)] : u \in userBalancesToFine}

(* ---------------------- DebtorService requests ------------------------ *)
IdleFineRequest ==
  [op |-> "none", n |-> 0, arg |-> None, pc |-> "done", previous |-> Null, date |-> 0,
   balances |-> {}, event |-> Null, subs |-> << >>, emails |-> {}, sent |-> {},
   tx |-> EmptyLedger, committed |-> FALSE, fine |-> None, group |-> Null,
   amount |-> 0, transfer |-> Null, out |-> "none", resp |-> None,
   pre |-> EmptyLedger]

\* The n-th call that may write (a read keeps the count).
NewFineRequest(op, n, arg, l) ==
  [IdleFineRequest EXCEPT !.op = op, !.n = n, !.arg = Some(arg), !.pc = "start",
                          !.out = "pending", !.pre = l]

\* const date = referenceDate || previousFineGroup?.createdAt || new Date()
EffectiveDate(l, referenceDate) ==
  IF referenceDate /= None THEN referenceDate[1]
  ELSE IF MaxId(l.FineHandoutEvent) /= Null
       THEN l.FineHandoutEvent[MaxId(l.FineHandoutEvent)].createdAt
       ELSE l.now

\* previousFineGroup?.fines.find((fine) => fine.userFineGroup.userId === b.id)
PreviousFine(l, previous, userId) ==
  LET fines == {f \in DOMAIN l.Fine :
                  /\ l.Fine[f].fineHandoutEvent = previous
                  /\ l.UserFineGroup[l.Fine[f].userFineGroup].userId = userId}
  IN IF previous = Null \/ fines = {} THEN Null
     ELSE CHOOSE f \in fines : \A g \in fines : f <= g

BalanceOf(balances, userId) == CHOOSE b \in balances : b.id = userId

\* The callback of balances.records.map for one user, before its first await.
FineSub == [pc |-> "find", group |-> Null, amount |-> 0, previousFine |-> Null,
            transfer |-> Null]

\* emails.push({ user, email: new UserGotFined({ ... }) })
pushEmailAndSend(r, email) ==
  [r EXCEPT !.emails = @ \cup {email},
            !.sent = @ \cup {[email EXCEPT !.delivered = TRUE]}]
pushEmail(r, email) == [r EXCEPT !.emails = @ \cup {email}]

\* emails1.forEach(({ user, email }) => Mailer.getInstance().send(user, email)):
\* every email is handed to the mailer; a send that fails rejects its own
\* promise, which nothing awaits.
forEachSendAwaited(emails, mailFails) ==
  LET failing == {e.user : e \in {x \in emails : x.user \in mailFails}}
      first == IF failing = {} THEN UnknownUser
               ELSE CHOOSE u \in failing : \A v \in failing : u <= v
  IN [sent |-> {[e EXCEPT !.delivered = e.user \notin mailFails] :
                  e \in {x \in emails : x.user <= first}},
      threw |-> failing /= {}]
forEachSend(emails, mailFails) ==
  [sent |-> {[e EXCEPT !.delivered = e.user \notin mailFails] : e \in emails},
   threw |-> FALSE]

\* userFineGroup.save(): the entity saves itself through the default
\* connection, not through the transaction's manager, so the row is written
\* to the store at once (and is seen by the transaction).
saveUserFineGroup(l, r, id, row) ==
  [led |-> [l EXCEPT !.UserFineGroup = Put(@, id, row),
                     !.seq.UserFineGroup = Max(@, id)],
   r |-> [r EXCEPT !.tx.UserFineGroup = Put(@, id, row),
                   !.tx.seq.UserFineGroup = Max(@, id)]]

\* Once every callback of Promise.all has returned, the fines are saved.
SettleFines(r) ==
  IF \A u \in DOMAIN r.subs : r.subs[u].pc = "done"
  THEN [r EXCEPT !.pc = "saveFines"] ELSE r

\* TransferService.createTransfer({ amount, fromId: user.id, toId: undefined }, manager)
FineTransferRequestToUser(amount, userId) ==
  [amount |-> amount, fromId |-> Null, toId |-> userId]
FineTransferRequest(amount, userId) ==
  [amount |-> amount, fromId |-> userId, toId |-> Null]

\* One await of the callback for user userId inside the transaction.
handOutFine_step(l, r, userId) ==
  LET sub == r.subs[userId]
      b == BalanceOf(r.balances, userId)
  IN CASE sub.pc = "find" ->
            LET group == CurrentFines(r.tx, userId)
            IN [led |-> l,
                r |-> [r EXCEPT !.subs[userId] =
                         [sub EXCEPT !.group = group,
                                     !.amount = calculateFine(b.amount).amount,
                                     !.previousFine = PreviousFine(r.tx, r.previous, userId),
                                     !.pc = IF group = Null THEN "saveGroup"
                                            ELSE "transfer"]]]
       [] sub.pc = "saveGroup" ->
            LET id == NextId(l, "UserFineGroup")
                x == saveUserFineGroup(l, r, id, [userId |-> userId, waivedTransfer |-> Null])
            IN [led |-> x.led,
                r |-> [x.r EXCEPT !.subs[userId] =
                         [sub EXCEPT !.group = id,
                                     !.pc = IF sub.amount > 0 THEN "saveUser"
                                            ELSE "transfer"]]]
       [] sub.pc = "saveUser" ->
            [led |-> l,
             r |-> [r EXCEPT !.tx.currentFines[userId] = sub.group,
                             !.subs[userId] = [sub EXCEPT !.pc = "transfer"]]]
       [] OTHER ->
            LET x == createTransferResult(r.tx, FineTransferRequest(sub.amount, userId))
                email == [user |-> userId, template |-> "UserGotFined",
                          fine |-> sub.amount, balance |-> b.amount.amount,
                          totalFine |-> SumAmounts(r.tx.Fine, GroupFines(r.tx, sub.group))
                                        + sub.amount,
                          delivered |-> FALSE]
            IN [led |-> l,
                r |-> SettleFines(pushEmail(
                        [r EXCEPT !.tx = x.led,
                                  !.subs[userId] = [sub EXCEPT !.transfer = x.id,
                                                               !.pc = "done"]],
                        email))]

\* manager.save(fines): the Fine rows, in the order of balances.records.
SaveFinesOfFirst(tx, r, users) ==
  IF users = {} THEN tx
  ELSE LET u == CHOOSE v \in users : \A w \in users : v <= w
           sub == r.subs[u]
           row == [fineHandoutEvent |-> r.event, userFineGroup |-> sub.group,
                   amount |-> sub.amount,
                   previousFine |-> sub.previousFine, transfer |-> sub.transfer]
       IN Insert(tx, "Fine", row)
RECURSIVE SaveFines(_, _, _)
SaveFines(tx, r, users) ==
  IF users = {} THEN tx
  ELSE LET u == CHOOSE v \in users : \A w \in users : v <= w
           sub == r.subs[u]
           row == [fineHandoutEvent |-> r.event, userFineGroup |-> sub.group,
                   amount |-> calculateFine(BalanceOf(r.balances, u).amount).amount,
                   previousFine |-> sub.previousFine, transfer |-> sub.transfer]
       IN SaveFines(Insert(tx, "Fine", row), r, users \ {u})

NextFineSub(r) ==
  CHOOSE u \in DOMAIN r.subs :
    /\ r.subs[u].pc /= "done"
    /\ \A v \in DOMAIN r.subs : r.subs[v].pc /= "done" => u <= v

FinishFine(r, out, resp) == [r EXCEPT !.pc = "done", !.out = out, !.resp = resp]

handOutFines_step(l, r) ==
  CASE r.pc = "start" ->
         LET date == EffectiveDate(l, r.arg[1].referenceDate)
         IN [led |-> l,
             r |-> [r EXCEPT !.previous = MaxId(l.FineHandoutEvent),
                             !.date = date,
                             !.balances =
                                getBalances(l, [date |-> Some(date),
                                                ids |-> Some(r.arg[1].userIds),
                                                userTypes |-> None, maxBalance |-> None]),
                             !.tx = l,
                             !.pc = "saveEvent"]]
    [] r.pc = "saveEvent" ->
         LET id == NextId(r.tx, "FineHandoutEvent")
         IN [led |-> l,
             r |-> [r EXCEPT !.tx = Insert(r.tx, "FineHandoutEvent",
                                      [referenceDate |-> r.date, createdAt |-> l.now]),
                             !.event = id,
                             !.subs = [u \in {b.id : b \in r.balances} |-> FineSub],
                             !.pc = IF r.balances = {} THEN "saveFines" ELSE "fines"]]
    [] r.pc = "fines" -> handOutFine_step(l, r, NextFineSub(r))
    [] r.pc = "saveFines" ->
         [led |-> l,
          r |-> [r EXCEPT !.tx = SaveFines(r.tx, r, DOMAIN r.subs), !.pc = "commit"]]
    [] r.pc = "commit" ->
         [led |-> [r.tx EXCEPT !.now = l.now],
          r |-> [r EXCEPT !.committed = TRUE, !.pc = "send"]]
    [] OTHER ->
         LET x == forEachSend(r.emails, r.arg[1].mailFails)
             sending == [r EXCEPT !.sent = @ \cup x.sent]
         IN IF x.threw
            THEN [led |-> l, r |-> FinishFine(sending, "error", None)]
            ELSE [led |-> l,
                  r |-> FinishFine(sending, "ok",
                          Some([id |-> r.event,
                                referenceDate |-> l.FineHandoutEvent[r.event].referenceDate,
                                fines |-> {f \in DOMAIN l.Fine :
                                             l.Fine[f].fineHandoutEvent = r.event}]))]

\* userFineGroup.fines.reduce((sum, f) => sum.add(f.amount), dinero({ amount: 0 }))
WaivedAmountOfOne(l, group) ==
  IF GroupFines(l, group) = {} THEN 0
  ELSE l.Fine[CHOOSE f \in GroupFines(l, group) :
                \A g \in GroupFines(l, group) : f <= g].amount
WaivedAmount(l, group) == SumAmounts(l.Fine, GroupFines(l, group))

waiveFines_step(l, r) ==
  CASE r.pc = "start" ->
         IF r.arg[1].userId \notin UserIds
         THEN [led |-> l, r |-> FinishFine(r, "error", None)]
         ELSE IF CurrentFines(l, r.arg[1].userId) = Null
         THEN [led |-> l, r |-> FinishFine(r, "ok", None)]
         ELSE LET group == CurrentFines(l, r.arg[1].userId)
              IN [led |-> l,
                  r |-> [r EXCEPT !.group = group,
                                  !.amount = WaivedAmount(l, group),
                                  !.pc = "createTransfer"]]
    [] r.pc = "createTransfer" ->
         LET x == createTransferResult(l, [amount |-> r.amount, toId |-> r.arg[1].userId,
                                           fromId |-> Null])
         IN [led |-> x.led, r |-> [r EXCEPT !.transfer = x.id, !.pc = "saveGroup"]]
    [] r.pc = "saveGroup" ->
         [led |-> [l EXCEPT !.UserFineGroup =
                     Put(@, r.group, [userId |-> r.arg[1].userId,
                                      waivedTransfer |-> r.transfer])],
          r |-> [r EXCEPT !.pc = "saveUser"]]
    [] OTHER ->
         [led |-> [l EXCEPT !.currentFines[r.arg[1].userId] = Null],
          r |-> FinishFine(r, "ok", None)]

\* if (userFineGroup.fines.length === 1)
IsLastFineAlways(length) == length >= 1
IsLastFine(length) == length = 1

deleteFine_step(l, r) ==
  CASE r.pc = "start" ->
         IF r.arg[1].id \notin DOMAIN l.Fine
         THEN [led |-> l, r |-> FinishFine(r, "ok", None)]
         ELSE [led |-> l,
               r |-> [r EXCEPT !.fine = Some(l.Fine[r.arg[1].id]),
                               !.group = l.Fine[r.arg[1].id].userFineGroup,
                               !.amount = Cardinality(
                                            GroupFines(l, l.Fine[r.arg[1].id].userFineGroup)),
                               !.pc = "removeFine"]]
    [] r.pc = "removeFine" ->
         [led |-> [l EXCEPT !.Fine = Remove(@, r.arg[1].id)],
          r |-> [r EXCEPT !.pc = "removeTransfer"]]
    [] r.pc = "removeTransfer" ->
         IF IsLastFine(r.amount)
         THEN [led |-> [l EXCEPT !.Transfer = Remove(@, r.fine[1].transfer)],
               r |-> [r EXCEPT !.pc = "removeGroup"]]
         ELSE [led |-> [l EXCEPT !.Transfer = Remove(@, r.fine[1].transfer)],
               r |-> FinishFine(r, "ok", None)]
    [] OTHER ->
         [led |-> [l EXCEPT !.UserFineGroup = Remove(@, r.group)],
          r |-> FinishFine(r, "ok", None)]

createTransfer_step(l, r) ==
  LET x == createTransferResult(l, r.arg[1])
  IN IF x.ok
     THEN [led |-> x.led, r |-> FinishFine([r EXCEPT !.transfer = x.id], "ok", Some(x.id))]
     ELSE [led |-> l, r |-> FinishFine(r, "error", None)]

calculateFinesOnDate_step(l, r) ==
  [led |-> l,
   r |-> FinishFine(r, "ok",
           Some(calculateFinesOnDate(l, r.arg[1].userTypes, r.arg[1].userIds,
                                     r.arg[1].referenceDate)))]

\* The users sendFineWarnings mails: those calculateFinesOnDate returns.
WarnedFinesAll(l, userIds, referenceDate) ==
  {[id |-> b.id, amount |-> calculateFine(b.amount)] :
     b \in getBalances(l, [date |-> referenceDate, ids |-> Some(userIds),
                           userTypes |-> None, maxBalance |-> None])}
WarnedFines(l, userIds, referenceDate) ==
  calculateFinesOnDate(l, None, Some(userIds), referenceDate)

sendFineWarnings_step(l, r) ==
  LET date == EffectiveDate(l, r.arg[1].referenceDate)
      balances == getBalances(l, [date |-> Some(date), ids |-> Some(r.arg[1].userIds),
                                  userTypes |-> None, maxBalance |-> None])
      fines == WarnedFines(l, r.arg[1].userIds, r.arg[1].referenceDate)
      missing == {f \in fines : \A b \in balances : b.id /= f.id}
      emails == {[user |-> f.id, template |-> "UserWillGetFined",
                  fine |-> f.amount.amount,
                  balance |-> BalanceOf(balances, f.id).amount.amount,
                  referenceDate |-> date, delivered |-> FALSE] : f \in fines \ missing}
      sent == {[e EXCEPT !.delivered = e.user \notin r.arg[1].mailFails] : e \in emails}
  IN [led |-> l,
      r |-> FinishFine([r EXCEPT !.date = date, !.balances = balances, !.sent = sent],
                       IF missing /= {} \/ \E e \in sent : ~e.delivered
                       THEN "error" ELSE "ok",
                       None)]

\* TransactionService.createTransaction(request): the transaction and its
\* sub-transactions are persisted together; it is not a Transfer.
createTransaction_step(l, r) ==
  [led |-> Insert(l, "Transaction",
                  [fromId |-> r.arg[1].fromId,
                   subTransactions |-> r.arg[1].subTransactions,
                   createdAt |-> l.now]),
   r |-> FinishFine(r, "ok", Some(NextId(l, "Transaction")))]

\* POST /invoices { toId, transactionIDs }: the invoice's Transfer to the
\* debtor is of the total value of the listed transactions.
RECURSIVE InvoiceAmount(_, _)
InvoiceAmount(l, transactionIDs) ==
  IF transactionIDs = {} THEN 0
  ELSE LET x == CHOOSE y \in transactionIDs : TRUE
       IN TotalValue(l.Transaction[x]) + InvoiceAmount(l, transactionIDs \ {x})

createInvoice_step(l, r) ==
  LET x == createTransferResult(l, [amount |-> InvoiceAmount(l, r.arg[1].transactionIDs),
                                    fromId |-> Null, toId |-> r.arg[1].toId])
  IN [led |-> x.led, r |-> FinishFine([r EXCEPT !.transfer = x.id], "ok", Some(x.id))]

\* BalanceService.getBalance(id, date), date defaulting to now.
getBalance_step(l, r) ==
  [led |-> l,
   r |-> FinishFine(r, "ok",
           Some(getBalance(l, r.arg[1].userId,
                           IF r.arg[1].date = None THEN l.now ELSE r.arg[1].date[1])))]

calculateFine_step(l, r) ==
  [led |-> l,
   r |-> FinishFine(r, "ok", Some(calculateFine(DineroTransformer_from(r.arg[1].balance))))]

FineStep(l, r) ==
  CASE r.op = "handOutFines" -> handOutFines_step(l, r)
    [] r.op = "calculateFine" -> calculateFine_step(l, r)
    [] r.op = "waiveFines" -> waiveFines_step(l, r)
    [] r.op = "deleteFine" -> deleteFine_step(l, r)
    [] r.op = "createTransfer" -> createTransfer_step(l, r)
    [] r.op = "calculateFinesOnDate" -> calculateFinesOnDate_step(l, r)
    [] r.op = "createTransaction" -> createTransaction_step(l, r)
    [] r.op = "createInvoice" -> createInvoice_step(l, r)
    [] r.op = "getBalance" -> getBalance_step(l, r)
    [] OTHER -> sendFineWarnings_step(l, r)

(* ------------------------------ actions -------------------------------- *)
\* Whether request r holds a successful approval of product p (its own, or
\* one nested in a container approval), or of container c.
ApprovedProduct(r, p) ==
  \/ r.op = "approveProductUpdate" /\ r.id = p /\ r.out = "ok"
  \/ r.op = "approveContainerUpdate" /\ p \in DOMAIN r.subs /\ r.subs[p].out = "ok"
ApprovedContainer(r, c) ==
  r.op = "approveContainerUpdate" /\ r.id = c /\ r.out = "ok"

Count(was, is) == IF is /\ ~was THEN 1 ELSE 0

\* Request slot s moves from `before` to x.r, the store to x.db.
Apply(s, before, x) ==
  /\ db' = x.db
  /\ reqs' = [reqs EXCEPT ![s] = x.r]
  /\ approvals' =
       [product |-> [p \in ProductIds |->
                       approvals.product[p]
                       + Count(ApprovedProduct(before, p), ApprovedProduct(x.r, p))],
        container |-> [c \in ContainerIds |->
                         approvals.container[c]
                         + Count(ApprovedContainer(before, c), ApprovedContainer(x.r, c))]]
  /\ UNCHANGED <<led, freq, http>>

\* Single writer per request: a request is taken up when no other is in flight.
CanStart(s) == \A t \in Slots : reqs[t].pc = "done"
Running(s, op) == reqs[s].op = op /\ reqs[s].pc /= "done"

Call(s, r0) == Apply(s, r0, Step(db, r0))
Resume(s) == Apply(s, reqs[s], Step(db, reqs[s]))

createProduct(s) ==
  \/ /\ CanStart(s)
     /\ Cardinality(DOMAIN db.Product) < MaxProducts
     /\ \E product \in ProductRequests :
          Call(s, NewRequest("createProduct", "none", 0, Some(product), db))
  \/ Running(s, "createProduct") /\ Resume(s)

updateProduct(s) ==
  \/ /\ CanStart(s)
     /\ \E productId \in ProductIds, update \in ProductRequests :
          Call(s, NewRequest("updateProduct", "none", productId, Some(update), db))
  \/ Running(s, "updateProduct") /\ Resume(s)

approveProductUpdate(s) ==
  \/ /\ CanStart(s)
     /\ \E productId \in ProductIds :
          /\ productId \in DOMAIN db.Product
               => db.Product[productId].currentRevision < MaxRevision
          /\ Call(s, NewRequest("approveProductUpdate", "none", productId, None, db))
  \/ Running(s, "approveProductUpdate") /\ Resume(s)

createContainer(s) ==
  \/ /\ CanStart(s)
     /\ Cardinality(DOMAIN db.Container) < MaxContainers
     /\ \E svc \in Services, container \in ContainerRequests, public \in PublicFlags :
          Call(s, NewRequest("createContainer", svc, 0,
                             Some([name |-> container.name,
                                   products |-> container.products,
                                   public |-> public]), db))
  \/ Running(s, "createContainer") /\ Resume(s)

updateContainer(s) ==
  \/ /\ CanStart(s)
     /\ \E svc \in Services, containerId \in ContainerIds, update \in ContainerRequests :
          Call(s, NewRequest("updateContainer", svc, containerId, Some(update), db))
  \/ Running(s, "updateContainer") /\ Resume(s)

\* The revisions a container approval may create stay within MaxRevision.
WithinRevisions(d, containerId) ==
  containerId \in DOMAIN d.Container =>
    /\ d.Container[containerId].currentRevision < MaxRevision
    /\ containerId \in DOMAIN d.UpdatedContainer =>
         \A p \in d.UpdatedContainer[containerId].products :
            p \in DOMAIN d.UpdatedProduct =>
              d.Product[p].currentRevision < MaxRevision

approveContainerUpdate(s) ==
  \/ /\ CanStart(s)
     /\ \E svc \in Services, containerId \in ContainerIds :
          /\ WithinRevisions(db, containerId)
          /\ Call(s, NewRequest("approveContainerUpdate", svc, containerId, None, db))
  \/ /\ Running(s, "approveContainerUpdate")
     /\ reqs[s].pc /= "approveProducts"
     /\ Resume(s)

\* The nested product approvals of Promise.all advance in any order.
approveNested(s, p) ==
  /\ Running(s, "approveContainerUpdate")
  /\ reqs[s].pc = "approveProducts"
  /\ p \in DOMAIN reqs[s].subs
  /\ reqs[s].subs[p].pc /= "done"
  /\ Apply(s, reqs[s], approveNested_step(db, reqs[s], p))

\* A write the store rejects: the awaited save or delete throws, the handler
\* rejects, and what it wrote before stays written (no handler opens a
\* transaction).
IsWrite(r) == r.pc \in {"saveUpdate", "saveRevision", "saveBase", "deleteUpdate"}

Fail(s) ==
  /\ reqs[s].pc /= "done"
  /\ IsWrite(reqs[s])
  /\ reqs' = [reqs EXCEPT ![s] = Finish(@, "error", None)]
  /\ UNCHANGED <<db, approvals, led, freq, http>>

FailNested(s, p) ==
  /\ Running(s, "approveContainerUpdate")
  /\ reqs[s].pc = "approveProducts"
  /\ p \in DOMAIN reqs[s].subs
  /\ reqs[s].subs[p].pc /= "done"
  /\ IsWrite(reqs[s].subs[p])
  /\ reqs' = [reqs EXCEPT ![s] =
                Settle([@ EXCEPT !.subs[p] = Finish(@, "error", None)])]
  /\ UNCHANGED <<db, approvals, led, freq, http>>

Init ==
  /\ db = EmptyDb
  /\ reqs = [s \in Slots |-> IdleRequest]
  /\ approvals = [product |-> [p \in ProductIds |-> 0],
                  container |-> [c \in ContainerIds |-> 0]]
  /\ led = EmptyLedger
  /\ freq = IdleFineRequest
  /\ http = IdleExchange

Next ==
  \E s \in Slots :
    \/ createProduct(s)
    \/ updateProduct(s)
    \/ approveProductUpdate(s)
    \/ createContainer(s)
    \/ updateContainer(s)
    \/ approveContainerUpdate(s)
    \/ \E p \in ProductIds : approveNested(s, p)

Spec == Init /\ [][Next]_vars

NextFault ==
  \/ Next
  \/ \E s \in Slots : Fail(s)
  \/ \E s \in Slots, p \in ProductIds : FailNested(s, p)

SpecFault == Init /\ [][NextFault]_vars

(* ----------------------- overlapping requests -------------------------- *)
\* Two connections: the handlers are async functions without a lock or a
\* transaction, so a request taken up on the second connection runs between
\* the awaits of one on the first.
RaceSlots == {1, 2}

InitRace ==
  /\ db = EmptyDb
  /\ reqs = [s \in RaceSlots |-> IdleRequest]
  /\ approvals = [product |-> [p \in ProductIds |-> 0],
                  container |-> [c \in ContainerIds |-> 0]]
  /\ led = EmptyLedger
  /\ freq = IdleFineRequest
  /\ http = IdleExchange

\* POST /products/:id/approve on the second connection, taken up whatever the
\* first connection is doing (while the product's approvals are within
\* MaxRevision).
overlappingApproveProductUpdate ==
  \/ /\ reqs[2].pc = "done"
     /\ \E productId \in ProductIds :
          /\ approvals.product[productId] < MaxRevision
          /\ Call(2, NewRequest("approveProductUpdate", "none", productId, None, db))
  \/ Running(2, "approveProductUpdate") /\ Resume(2)

\* The first connection issues the product requests, the second one product
\* approvals.
NextRace ==
  \/ createProduct(1)
  \/ updateProduct(1)
  \/ approveProductUpdate(1)
  \/ overlappingApproveProductUpdate

SpecRace == InitRace /\ [][NextRace]_vars

(* ------------------ overlapping container responses ------------------- *)
\* The store after the calls, each handler run to its end from store d.
RECURSIVE RunAll(_, _)
RunAll(d, calls) ==
  IF calls = << >> THEN d
  ELSE RunAll(Run(d, NewRequest(calls[1].op, calls[1].svc, calls[1].id,
                                calls[1].arg, d)).db,
              Tail(calls))

\* The stores a response is assembled from: product 1 approved once, container
\* 1 created with it, then approved or not, product 1 updated again or not,
\* the container updated again or not; every store built by the handlers.
ResponseShapes == [approved : BOOLEAN, productDraft : BOOLEAN, draft : BOOLEAN]

ResponseCalls(shape) ==
  <<[op |-> "createProduct", svc |-> "none", id |-> 0,
     arg |-> Some([name |-> "a", price |-> 1])],
    [op |-> "approveProductUpdate", svc |-> "none", id |-> 1, arg |-> None],
    [op |-> "createContainer", svc |-> "strict", id |-> 0,
     arg |-> Some([name |-> "x", products |-> {1}, public |-> 1])]>>
  \o (IF shape.approved
      THEN <<[op |-> "approveContainerUpdate", svc |-> "strict", id |-> 1,
              arg |-> None]>>
      ELSE << >>)
  \o (IF shape.productDraft
      THEN <<[op |-> "updateProduct", svc |-> "none", id |-> 1,
              arg |-> Some([name |-> "b", price |-> 2])]>>
      ELSE << >>)
  \o (IF shape.approved /\ shape.draft
      THEN <<[op |-> "updateContainer", svc |-> "strict", id |-> 1,
              arg |-> Some([name |-> "y", products |-> {1}])]>>
      ELSE << >>)

ResponseStores == {RunAll(EmptyDb, ResponseCalls(shape)) : shape \in ResponseShapes}

InitResponse ==
  /\ db \in ResponseStores
  /\ reqs = [s \in RaceSlots |-> IdleRequest]
  /\ approvals = [product |-> [p \in ProductIds |-> 0],
                  container |-> [c \in ContainerIds |-> 0]]
  /\ led = EmptyLedger
  /\ freq = IdleFineRequest
  /\ http = IdleExchange

\* Request r has run the first query of getProductsResponse and not yet the
\* second.
BetweenQueries(r) == r.pc = "returnProducts"

\* The request of the first connection, whose response is assembled.
respondingUpdateContainer ==
  \/ /\ reqs[1].op = "none"
     /\ \E svc \in Services, containerId \in ContainerIds, update \in ContainerRequests :
          Call(1, NewRequest("updateContainer", svc, containerId, Some(update), db))
  \/ Running(1, "updateContainer") /\ Resume(1)

respondingApproveContainerUpdate ==
  \/ /\ reqs[1].op = "none"
     /\ \E svc \in Services, containerId \in ContainerIds :
          Call(1, NewRequest("approveContainerUpdate", svc, containerId, None, db))
  \/ /\ Running(1, "approveContainerUpdate")
     /\ reqs[1].pc /= "approveProducts"
     /\ Resume(1)

\* PATCH /containers/:id and POST /containers/:id/approve on the second
\* connection, taken up between the two queries of the getProductsResponse
\* of the first (while the approvals are within MaxRevision).
overlappingUpdateContainer ==
  \/ /\ reqs[2].pc = "done"
     /\ BetweenQueries(reqs[1])
     /\ \E svc \in Services, containerId \in ContainerIds, update \in ContainerRequests :
          Call(2, NewRequest("updateContainer", svc, containerId, Some(update), db))
  \/ Running(2, "updateContainer") /\ Resume(2)

overlappingApproveContainerUpdate ==
  \/ /\ reqs[2].pc = "done"
     /\ BetweenQueries(reqs[1])
     /\ \E svc \in Services, containerId \in ContainerIds :
          /\ approvals.container[containerId] < MaxRevision
          /\ \A q \in ProductIds : approvals.product[q] < MaxRevision
          /\ Call(2, NewRequest("approveContainerUpdate", svc, containerId, None, db))
  \/ /\ Running(2, "approveContainerUpdate")
     /\ reqs[2].pc /= "approveProducts"
     /\ Resume(2)

NextResponse ==
  \/ respondingUpdateContainer
  \/ respondingApproveContainerUpdate
  \/ overlappingUpdateContainer
  \/ overlappingApproveContainerUpdate
  \/ \E s \in RaceSlots, p \in ProductIds : approveNested(s, p)

SpecResponse == InitResponse /\ [][NextResponse]_vars

(* ------------------------ DebtorService actions ------------------------ *)
MaxBalance == 3000

\* Balances calculateFine is applied to.
BalanceInputs == (0 - MaxBalance)..MaxBalance

\* Transfers other services create: a payout or payment from a user, a deposit
\* to a user, and a request naming neither.
TransferRequests ==
  {[amount |-> 900, fromId |-> u, toId |-> Null] : u \in UserIds}
  \cup {[amount |-> 1000, fromId |-> Null, toId |-> 1],
        [amount |-> 1000, fromId |-> Null, toId |-> Null]}

ReferenceDates(l) == {None} \cup {Some(t) : t \in 0..(l.now - 1)}

\* The transfers that are neither a fine nor a waiver.
OtherTransfers(l) ==
  {t \in DOMAIN l.Transfer :
     /\ \A f \in DOMAIN l.Fine : l.Fine[f].transfer /= t
     /\ \A g \in DOMAIN l.UserFineGroup : l.UserFineGroup[g].waivedTransfer /= t}

\* The filters calculateFinesOnDate is called with.
FineFilters ==
  {[userTypes |-> None, userIds |-> None],
   [userTypes |-> Some({"MEMBER"}), userIds |-> None],
   [userTypes |-> None, userIds |-> Some({MaxUsers})]}

\* The users a batch names, and the users whose email the mailer fails to send.
Batches == {UserIds, {1}}
MailFailures(userIds) == {{}, userIds \cap {1}}

ApplyFine(x) ==
  /\ led' = x.led
  /\ freq' = x.r
  /\ UNCHANGED <<db, reqs, approvals, http>>

FineIdle == freq.pc = "done"
FineRunning(op) == freq.op = op /\ freq.pc /= "done"
FineCall(r0) == ApplyFine(FineStep(led, r0))
FineResume == ApplyFine(FineStep(led, freq))

\* Time passes between two requests.
Tick ==
  /\ FineIdle
  /\ led.now < MaxTime
  /\ led' = [led EXCEPT !.now = @ + 1]
  /\ UNCHANGED <<freq, db, reqs, approvals, http>>

createTransfer ==
  /\ FineIdle
  /\ freq.n < MaxCalls
  /\ Cardinality(OtherTransfers(led)) < MaxTransfers
  /\ \E req \in TransferRequests :
       FineCall(NewFineRequest("createTransfer", freq.n + 1, req, led))

calculateFinesOnDate_call ==
  /\ FineIdle
  /\ \E filter \in FineFilters, referenceDate \in ReferenceDates(led) :
       FineCall(NewFineRequest("calculateFinesOnDate", freq.n,
                               [userTypes |-> filter.userTypes, userIds |-> filter.userIds,
                                referenceDate |-> referenceDate], led))

handOutFines ==
  \/ /\ FineIdle
     /\ freq.n < MaxCalls
     /\ Cardinality(DOMAIN led.FineHandoutEvent) < MaxEvents
     /\ \E userIds \in Batches, referenceDate \in ReferenceDates(led) :
          FineCall(NewFineRequest("handOutFines", freq.n + 1,
                                  [userIds |-> userIds,
                                   referenceDate |-> referenceDate,
                                   mailFails |-> {}], led))
  \/ /\ FineRunning("handOutFines")
     /\ freq.pc \notin {"fines", "send"}
     /\ FineResume
  \/ /\ FineRunning("handOutFines")
     /\ freq.pc = "send"
     /\ \E mailFails \in MailFailures(freq.arg[1].userIds) :
          ApplyFine(FineStep(led, [freq EXCEPT !.arg[1].mailFails = mailFails]))

\* The callbacks of Promise.all advance in any order.
handOutFine(userId) ==
  /\ FineRunning("handOutFines")
  /\ freq.pc = "fines"
  /\ userId \in DOMAIN freq.subs
  /\ freq.subs[userId].pc /= "done"
  /\ ApplyFine(handOutFine_step(led, freq, userId))

waiveFines ==
  \/ /\ FineIdle
     /\ freq.n < MaxCalls
     /\ \E userId \in UserIds \cup {UnknownUser} :
          FineCall(NewFineRequest("waiveFines", freq.n + 1, [userId |-> userId], led))
  \/ FineRunning("waiveFines") /\ FineResume

deleteFine ==
  \/ /\ FineIdle
     /\ freq.n < MaxCalls
     /\ \E id \in DOMAIN led.Fine \cup {NextId(led, "Fine")} :
          FineCall(NewFineRequest("deleteFine", freq.n + 1, [id |-> id], led))
  \/ FineRunning("deleteFine") /\ FineResume

sendFineWarnings ==
  /\ FineIdle
  /\ \E userIds \in Batches, referenceDate \in ReferenceDates(led) :
       \E mailFails \in MailFailures(userIds) :
         FineCall(NewFineRequest("sendFineWarnings", freq.n,
                                 [userIds |-> userIds, referenceDate |-> referenceDate,
                                  mailFails |-> mailFails], led))

NextFine ==
  \/ Tick
  \/ createTransfer
  \/ calculateFinesOnDate_call
  \/ handOutFines
  \/ \E userId \in UserIds : handOutFine(userId)
  \/ waiveFines
  \/ deleteFine
  \/ sendFineWarnings

SpecFine == Init /\ [][NextFine]_vars

\* A write of handOutFines the store rejects: the transaction callback
\* rejects, the manager rolls back what was written through it, and what was
\* written past it stays written.
IsFineWrite(r) ==
  /\ r.op = "handOutFines"
  /\ \/ r.pc \in {"saveEvent", "saveFines", "commit"}
     \/ r.pc = "fines"
        /\ \E u \in DOMAIN r.subs : r.subs[u].pc \in {"saveGroup", "saveUser", "transfer"}

FailFine ==
  /\ freq.pc /= "done"
  /\ IsFineWrite(freq)
  /\ freq' = FinishFine(freq, "error", None)
  /\ UNCHANGED <<led, db, reqs, approvals, http>>

NextFineFault ==
  \/ Tick
  \/ createTransfer
  \/ handOutFines
  \/ \E userId \in UserIds : handOutFine(userId)
  \/ FailFine

SpecFineFault == Init /\ [][NextFineFault]_vars

\* calculateFine applied to every balance of BalanceInputs.
InitCalc ==
  /\ db = EmptyDb
  /\ reqs = [s \in Slots |-> IdleRequest]
  /\ approvals = [product |-> [p \in ProductIds |-> 0],
                  container |-> [c \in ContainerIds |-> 0]]
  /\ led = EmptyLedger
  /\ freq \in {NewFineRequest("calculateFine", 0, [balance |-> b], EmptyLedger) :
                 b \in BalanceInputs}
  /\ http = IdleExchange

calculateFine_call ==
  /\ FineRunning("calculateFine")
  /\ FineResume

NextCalc == calculateFine_call

SpecCalc == InitCalc /\ [][NextCalc]_vars

(* ------------------------- balance actions ----------------------------- *)
MaxTransactions == 2

\* Purchases: a payer, and the owners the sub-transactions pay.
TransactionRequests ==
  {[fromId |-> 1, subTransactions |-> <<[toId |-> 2, amount |-> 300]>>],
   [fromId |-> 1, subTransactions |-> <<[toId |-> 2, amount |-> 300],
                                        [toId |-> 2, amount |-> 200]>>],
   [fromId |-> 2, subTransactions |-> <<[toId |-> 1, amount |-> 100],
                                        [toId |-> 2, amount |-> 50]>>]}

createTransaction ==
  /\ FineIdle
  /\ freq.n < MaxCalls
  /\ Cardinality(DOMAIN led.Transaction) < MaxTransactions
  /\ \E req \in TransactionRequests :
       FineCall(NewFineRequest("createTransaction", freq.n + 1, req, led))

\* An invoice for all the transactions a user paid so far.
createInvoice ==
  /\ FineIdle
  /\ freq.n < MaxCalls
  /\ \E toId \in UserIds :
       LET transactionIDs == {x \in DOMAIN led.Transaction :
                                led.Transaction[x].fromId = toId}
       IN /\ transactionIDs /= {}
          /\ FineCall(NewFineRequest("createInvoice", freq.n + 1,
                                     [toId |-> toId, transactionIDs |-> transactionIDs],
                                     led))

getBalance_call ==
  /\ FineIdle
  /\ \E userId \in UserIds, date \in {None} \cup {Some(t) : t \in 0..led.now} :
       FineCall(NewFineRequest("getBalance", freq.n, [userId |-> userId, date |-> date],
                               led))

NextBalance ==
  \/ Tick
  \/ createTransfer
  \/ createTransaction
  \/ createInvoice
  \/ getBalance_call

SpecBalance == Init /\ [][NextBalance]_vars

(* ------------------------------ list reads ----------------------------- *)
MaxListed == 2

\* PaginationParameters { take?, skip? }: each may be left out.
Takes == {Undefined, 1, 2}
Skips == {Undefined, 0, 1}

\* SQL LIMIT take OFFSET skip over the rows of a query.
LimitOffset(rows, take, skip) ==
  LET rest == IF skip = Undefined THEN rows ELSE SubSeq(rows, skip + 1, Len(rows))
  IN IF take = Undefined THEN rest ELSE SubSeq(rest, 1, Min(take, Len(rest)))

\* The orders in which a query without ORDER BY may return its rows.
Enumerations(S) ==
  {s \in [1..Cardinality(S) -> S] :
     \A i, j \in 1..Cardinality(S) : s[i] = s[j] => i = j}

\* The containers buildGetContainersQuery({}) matches: those joined with the
\* revision their currentRevision names.
CurrentContainers(d) ==
  {c \in DOMAIN d.Container :
     <<c, d.Container[c].currentRevision>> \in DOMAIN d.ContainerRevision}

\* The rows of buildGetContainersQuery(filters): one per matching container,
\* and with returnProducts one per product revision joined to it.
ContainerRows(svc, d, returnProducts) ==
  IF returnProducts
  THEN UNION {{[raw |-> RawContainer(svc, c, d.Container[c],
                                     d.Container[c].currentRevision,
                                     d.ContainerRevision[
                                       <<c, d.Container[c].currentRevision>>].name),
                product |-> [id |-> k[1], revision |-> k[2],
                             name |-> d.ProductRevision[k].name,
                             price |-> d.ProductRevision[k].price]] :
                 k \in {j \in d.ContainerRevision[
                                <<c, d.Container[c].currentRevision>>].products :
                          j \in DOMAIN d.ProductRevision}} :
              c \in CurrentContainers(d)}
  ELSE {[raw |-> RawContainer(svc, c, d.Container[c], d.Container[c].currentRevision,
                              d.ContainerRevision[
                                <<c, d.Container[c].currentRevision>>].name),
         product |-> Null] : c \in CurrentContainers(d)}

\* The rows of buildGetUpdatedContainersQuery({}): one per container with a draft.
UpdatedContainerRows(d) ==
  {[raw |-> RawUpdatedContainer(c, d.Container[c], d.UpdatedContainer[c].name),
    product |-> Null] :
     c \in {x \in DOMAIN d.Container : x \in DOMAIN d.UpdatedContainer}}

\* combineProducts: the rows grouped by (revision, id) of their container, in
\* the order in which the containers first appear.
RECURSIVE combineProducts(_, _)
combineProducts(rawResponse, collected) ==
  IF rawResponse = << >> THEN collected
  ELSE LET response == Head(rawResponse)
           key == <<response.raw.container_revision, response.raw.container_id>>
           productResponse == asProductResponse(response.product)
           at == {i \in DOMAIN collected : collected[i].key = key}
       IN combineProducts(Tail(rawResponse),
            IF at /= {}
            THEN [i \in DOMAIN collected |->
                    IF i \in at
                    THEN [collected[i] EXCEPT !.products = @ \cup {productResponse}]
                    ELSE collected[i]]
            ELSE Append(collected,
                   [asContainerResponse_auto(response.raw) EXCEPT
                      !.products = {productResponse}]
                     @@ [key |-> key]))

Paginated(take, skip, count, records) ==
  [pagination |-> [take |-> take, skip |-> skip, count |-> count],
   records |-> records]

\* getContainers(filters, { take, skip }) over the rows in the order the
\* database returns them.
getContainersPage(svc, d, returnProducts, take, skip, rows) ==
  LET results0 == LimitOffset(rows, take, skip)
      results1 == Cardinality(CurrentContainers(d))
  IN Paginated(take, skip, results1,
       IF returnProducts THEN combineProducts(results0, << >>)
       ELSE [i \in DOMAIN results0 |-> asContainerResponse(svc, results0[i].raw)])

\* getUpdatedContainers(filters, { take, skip }).
getUpdatedContainersPage(svc, d, take, skip, rows) ==
  LET results0 == LimitOffset(rows, take, skip)
  IN Paginated(take, skip, Cardinality(UpdatedContainerRows(d)),
       [i \in DOMAIN results0 |-> asContainerResponse(svc, results0[i].raw)])

asBaseFineHandoutEventResponse(id, e) ==
  [id |-> id, createdAt |-> e.createdAt, referenceDate |-> e.referenceDate]

\* getFineHandoutEvents({ take, skip }).
getFineHandoutEventsPage(l, take, skip, rows) ==
  LET events == LimitOffset(rows, take, skip)
  IN Paginated(take, skip, Cardinality(DOMAIN l.FineHandoutEvent),
       [i \in DOMAIN events |->
          asBaseFineHandoutEventResponse(events[i], l.FineHandoutEvent[events[i]])])

\* The stores the list reads are applied to: two approved products and up to
\* MaxListed containers, every store built by the handlers themselves.
ListProducts ==
  <<[op |-> "createProduct", svc |-> "none", id |-> 0,
     arg |-> Some([name |-> "a", price |-> 1])],
    [op |-> "approveProductUpdate", svc |-> "none", id |-> 1, arg |-> None],
    [op |-> "createProduct", svc |-> "none", id |-> 0,
     arg |-> Some([name |-> "b", price |-> 2])],
    [op |-> "approveProductUpdate", svc |-> "none", id |-> 2, arg |-> None]>>

\* A container as created with the listed products, then approved or not,
\* then updated again or not.
ContainerShapes ==
  {[products |-> {1}, approved |-> FALSE, draft |-> TRUE],
   [products |-> {}, approved |-> TRUE, draft |-> FALSE],
   [products |-> {1}, approved |-> TRUE, draft |-> FALSE],
   [products |-> {1, 2}, approved |-> TRUE, draft |-> FALSE],
   [products |-> {1, 2}, approved |-> TRUE, draft |-> TRUE]}

ContainerCalls(id, shape) ==
  <<[op |-> "createContainer", svc |-> "strict", id |-> 0,
     arg |-> Some([name |-> "x", products |-> shape.products, public |-> 1])]>>
  \o (IF shape.approved
      THEN <<[op |-> "approveContainerUpdate", svc |-> "strict", id |-> id,
              arg |-> None]>>
      ELSE << >>)
  \o (IF shape.approved /\ shape.draft
      THEN <<[op |-> "updateContainer", svc |-> "strict", id |-> id,
              arg |-> Some([name |-> "y", products |-> shape.products])]>>
      ELSE << >>)

RECURSIVE ListCalls(_, _)
ListCalls(shapes, id) ==
  IF id > Len(shapes) THEN << >>
  ELSE ContainerCalls(id, shapes[id]) \o ListCalls(shapes, id + 1)

ListStores ==
  {RunAll(EmptyDb, ListProducts \o ListCalls(shapes, 1)) :
     shapes \in UNION {[1..n -> ContainerShapes] : n \in 0..MaxListed}}

\* A DebtorService request run to its end.
RECURSIVE RunFine(_, _)
RunFine(l, r) ==
  IF r.pc = "done" THEN [led |-> l, r |-> r]
  ELSE LET x == FineStep(l, r) IN RunFine(x.led, x.r)

\* The ledgers the list reads are applied to: after n handouts to user 1.
RECURSIVE HandedOut(_)
HandedOut(n) ==
  IF n = 0 THEN EmptyLedger
  ELSE LET l == HandedOut(n - 1)
       IN RunFine(l, NewFineRequest("handOutFines", n,
                                    [userIds |-> {1}, referenceDate |-> None,
                                     mailFails |-> {}], l)).led

ListLedgers == {HandedOut(n) : n \in 0..MaxEvents}

InitList ==
  /\ db \in ListStores
  /\ reqs = [s \in Slots |-> IdleRequest]
  /\ approvals = [product |-> [p \in ProductIds |-> 0],
                  container |-> [c \in ContainerIds |-> 0]]
  /\ led \in ListLedgers
  /\ freq = IdleFineRequest
  /\ http = IdleExchange

ListRead(op, svc, arg, page) ==
  /\ reqs' = [reqs EXCEPT ![1] =
                Finish(NewRequest(op, svc, 0, Some(arg), db), "ok", Some(page))]
  /\ UNCHANGED <<db, approvals, led, freq, http>>

getContainers_call ==
  \E svc \in Services, returnProducts \in BOOLEAN, take \in Takes, skip \in Skips :
    /\ returnProducts => svc = "auto"
    /\ \E rows \in Enumerations(ContainerRows(svc, db, returnProducts)) :
         ListRead("getContainers", svc,
                  [returnProducts |-> returnProducts, take |-> take, skip |-> skip],
                  getContainersPage(svc, db, returnProducts, take, skip, rows))

getUpdatedContainers_call ==
  \E svc \in Services, take \in Takes, skip \in Skips :
    \E rows \in Enumerations(UpdatedContainerRows(db)) :
      ListRead("getUpdatedContainers", svc,
               [returnProducts |-> FALSE, take |-> take, skip |-> skip],
               getUpdatedContainersPage(svc, db, take, skip, rows))

getFineHandoutEvents_call ==
  \E take \in Takes, skip \in Skips :
    \E rows \in Enumerations(DOMAIN led.FineHandoutEvent) :
      ListRead("getFineHandoutEvents", "none",
               [returnProducts |-> FALSE, take |-> take, skip |-> skip],
               getFineHandoutEventsPage(led, take, skip, rows))

NextList ==
  \/ getContainers_call
  \/ getUpdatedContainers_call
  \/ getFineHandoutEvents_call

SpecList == InitList /\ [][NextList]_vars

(* ------------------------------ read lenses ---------------------------- *)
\* The join condition of getProducts without a revision filter.
JoinsAnyRevision(d, p, k) == k[1] = p
JoinsCurrentRevision(d, p, k) == k[1] = p /\ d.Product[p].currentRevision = k[2]

\* getProducts({}): every product joined with the revision records the
\* condition matches; a NULL currentRevision equals no revision.
getProductsAll(d) ==
  {asProductResponse([id |-> x[1], revision |-> x[2][2],
                      name |-> d.ProductRevision[x[2]].name,
                      price |-> d.ProductRevision[x[2]].price]) :
     x \in {y \in (DOMAIN d.Product) \X (DOMAIN d.ProductRevision) :
              JoinsCurrentRevision(d, y[1], y[2])}}

\* getUpdatedProducts({}): every product joined with its pending draft.
getUpdatedProductsAll(d) ==
  {asProductResponse([id |-> p, revision |-> Undefined,
                      name |-> d.UpdatedProduct[p].name,
                      price |-> d.UpdatedProduct[p].price]) :
     p \in (DOMAIN d.Product) \cap (DOMAIN d.UpdatedProduct)}

\* A product as created, then approved and updated again a number of times.
ProductShapes ==
  {<<"create">>,
   <<"create", "approve">>,
   <<"create", "approve", "update">>,
   <<"create", "approve", "update", "approve">>,
   <<"create", "approve", "update", "approve", "update">>,
   <<"create", "approve", "update", "update", "approve">>}

ProductCalls(id, shape) ==
  [i \in DOMAIN shape |->
     IF shape[i] = "create"
     THEN [op |-> "createProduct", svc |-> "none", id |-> 0,
           arg |-> Some([name |-> "a", price |-> id])]
     ELSE IF shape[i] = "approve"
          THEN [op |-> "approveProductUpdate", svc |-> "none", id |-> id,
                arg |-> None]
          ELSE [op |-> "updateProduct", svc |-> "none", id |-> id,
                arg |-> Some([name |-> "b", price |-> id + i])]]

RECURSIVE LensCalls(_, _)
LensCalls(shapes, id) ==
  IF id > Len(shapes) THEN << >>
  ELSE ProductCalls(id, shapes[id]) \o LensCalls(shapes, id + 1)

\* The stores the lenses are read from: up to MaxListed products, every
\* store built by the handlers themselves.
LensStores ==
  {RunAll(EmptyDb, LensCalls(shapes, 1)) :
     shapes \in UNION {[1..n -> ProductShapes] : n \in 0..MaxListed}}

InitLens ==
  /\ db \in LensStores
  /\ reqs = [s \in Slots |-> IdleRequest]
  /\ approvals = [product |-> [p \in ProductIds |-> 0],
                  container |-> [c \in ContainerIds |-> 0]]
  /\ led = EmptyLedger
  /\ freq = IdleFineRequest
  /\ http = IdleExchange

getProducts_call ==
  ListRead("getProducts", "none", [productRevision |-> Undefined],
           getProductsAll(db))

getUpdatedProducts_call ==
  ListRead("getUpdatedProducts", "none", [productRevision |-> Undefined],
           getUpdatedProductsAll(db))

NextLens ==
  \/ getProducts_call
  \/ getUpdatedProducts_call

SpecLens == InitLens /\ [][NextLens]_vars

(* --------------------- the product controller -------------------------- *)
\* POST /products/:id/approve: the service's undefined is answered with 404.
approveProductRoute(resp) ==
  IF resp = None THEN [status |-> 404, body |-> "Product update not found."]
  ELSE [status |-> 200, body |-> "product"]

(* ------------------------------ routes --------------------------------- *)
\* The MethodPolicy of the product routes: whether it names a body model,
\* and its handler.
Policy ==
  [POST_products |-> [body |-> TRUE, handler |-> "createProduct"],
   PATCH_products_id |-> [body |-> TRUE, handler |-> "updateProduct"],
   POST_products_id_approve |-> [body |-> FALSE, handler |-> "approveProductUpdate"]]

Routes == DOMAIN Policy

\* BaseController.defineRoute: the handlers registered for a route, in the
\* order express runs them.
defineRoutePolicyLast(methodPolicy) ==
  (IF methodPolicy.body THEN <<"RequestValidatorMiddleware">> ELSE << >>)
  \o <<"RestrictionMiddleware", "handler", "PolicyMiddleware">>
defineRoute(methodPolicy) ==
  (IF methodPolicy.body THEN <<"RequestValidatorMiddleware">> ELSE << >>)
  \o <<"PolicyMiddleware", "RestrictionMiddleware", "handler">>

\* What a request carries: whether its token's roles satisfy the route's
\* policy, whether the token is a lesser one, the product id of the path and
\* the body (MalformedBody: not of the route's body model; InvalidProduct: of
\* the model but rejected by the handler's own verification).
MalformedBody == [name |-> UndefinedName, price |-> Undefined]
InvalidProduct == [name |-> "", price |-> 1]
Bodies == {MalformedBody, InvalidProduct} \cup ProductRequests
HttpRequests ==
  [admin : BOOLEAN, lesser : BOOLEAN, id : ProductIds, body : Bodies]

Respond(x, status, body) ==
  [x EXCEPT !.chain = << >>, !.status = status, !.body = body]
PassOn(x) == [x EXCEPT !.chain = Tail(@)]

\* The route's handler: the controller method around the service call.
handler_step(d, x) ==
  LET op == Policy[x.route].handler
      invoked == [x EXCEPT !.invoked = TRUE]
  IN IF op /= "approveProductUpdate" /\ x.req[1].body = InvalidProduct
     THEN [db |-> d, x |-> Respond(invoked, 400, "Invalid product.")]
     ELSE LET arg == IF op = "approveProductUpdate" THEN None
                     ELSE Some(x.req[1].body)
              id == IF op = "createProduct" THEN 0 ELSE x.req[1].id
              run == Run(d, NewRequest(op, "none", id, arg, d))
          IN [db |-> run.db,
              x |-> IF op = "approveProductUpdate"
                    THEN Respond(invoked, approveProductRoute(run.r.resp).status,
                                 approveProductRoute(run.r.resp).body)
                    ELSE IF run.r.resp = None
                         THEN Respond(invoked, 404, "Product not found.")
                         ELSE Respond(invoked, 200, "product")]

\* One handler of the chain: a middleware answers the request itself or
\* passes it on to the next handler.
Handle(d, x) ==
  CASE Head(x.chain) = "RequestValidatorMiddleware" ->
         [db |-> d,
          x |-> IF x.req[1].body = MalformedBody
                THEN Respond(x, 400, "validation errors") ELSE PassOn(x)]
    [] Head(x.chain) = "PolicyMiddleware" ->
         [db |-> d,
          x |-> IF x.req[1].admin
                THEN PassOn([x EXCEPT !.policy = Some(TRUE)])
                ELSE Respond([x EXCEPT !.policy = Some(FALSE)], 403, "")]
    [] Head(x.chain) = "RestrictionMiddleware" ->
         [db |-> d,
          x |-> IF x.req[1].lesser THEN Respond(x, 403, "") ELSE PassOn(x)]
    [] OTHER -> handler_step(d, x)

\* The requests whose handler, if the policy admits them, stays within the
\* bounds of the store.
WithinStore(route, req) ==
  /\ (Policy[route].handler = "createProduct" /\ req.admin) =>
       Cardinality(DOMAIN db.Product) < MaxProducts
  /\ Policy[route].handler = "approveProductUpdate" =>
       (req.id \in DOMAIN db.Product =>
          db.Product[req.id].currentRevision < MaxRevision)

ApplyRoute(r) ==
  /\ db' = r.db
  /\ http' = r.x
  /\ UNCHANGED <<reqs, approvals, led, freq>>

receive ==
  /\ http.chain = << >>
  /\ \E route \in Routes, req \in HttpRequests :
       /\ WithinStore(route, req)
       /\ ~Policy[route].body => req.body = MalformedBody
       /\ http' = [IdleExchange EXCEPT !.route = route, !.req = Some(req),
                                       !.chain = defineRoute(Policy[route]),
                                       !.pre = db]
  /\ UNCHANGED <<db, reqs, approvals, led, freq>>

InChain(h) == http.chain /= << >> /\ Head(http.chain) = h

RequestValidatorMiddleware == InChain("RequestValidatorMiddleware") /\ ApplyRoute(Handle(db, http))
PolicyMiddleware == InChain("PolicyMiddleware") /\ ApplyRoute(Handle(db, http))
RestrictionMiddleware == InChain("RestrictionMiddleware") /\ ApplyRoute(Handle(db, http))
handler == InChain("handler") /\ ApplyRoute(Handle(db, http))

NextRoute ==
  \/ receive
  \/ RequestValidatorMiddleware
  \/ PolicyMiddleware
  \/ RestrictionMiddleware
  \/ handler

SpecRoute == Init /\ [][NextRoute]_vars

(* --------------------------- verifyContainer --------------------------- *)
\* What the callback of products.every returns: an async function returns a
\* Promise, here of undefined (the callback awaits Product.findOne and returns
\* nothing).
verifyContainerCallback(d, productId) == [kind |-> "promise", value |-> Undefined]

\* ToBoolean, as Array.prototype.every applies it to what the callback
\* returns: an object (a Promise) is truthy.
ToBoolean(v) == v.kind = "promise" \/ (v.kind = "boolean" /\ v.value = 1)

\* containerRequest.name !== '' && containerRequest.products.every(async ...)
verifyContainer(d, containerRequest) ==
  /\ containerRequest.name /= ""
  /\ \A productId \in containerRequest.products :
       ToBoolean(verifyContainerCallback(d, productId))

\* The requests verified: no name or a name, and any list of the ids of an
\* approved or pending product (1) and of products never created.
VerifiedRequests ==
  [name : {"", "x"}, products : SUBSET (1..(MaxProducts + 2))]

\* The stores they are verified against: no product, product 1 never
\* approved, and the stores of ResponseStores (product 1 approved).
VerifyStores ==
  {EmptyDb,
   RunAll(EmptyDb, <<[op |-> "createProduct", svc |-> "none", id |-> 0,
                      arg |-> Some([name |-> "a", price |-> 1])]>>)}
  \cup ResponseStores

InitVerify ==
  /\ db \in VerifyStores
  /\ reqs = [s \in Slots |-> IdleRequest]
  /\ approvals = [product |-> [p \in ProductIds |-> 0],
                  container |-> [c \in ContainerIds |-> 0]]
  /\ led = EmptyLedger
  /\ freq = IdleFineRequest
  /\ http = IdleExchange

verifyContainer_call ==
  /\ reqs[1].op = "none"
  /\ \E containerRequest \in VerifiedRequests :
       reqs' = [reqs EXCEPT ![1] =
                  Finish(NewRequest("verifyContainer", "strict", 0,
                                    Some(containerRequest), db),
                         "ok", Some(verifyContainer(db, containerRequest)))]
  /\ UNCHANGED <<db, approvals, led, freq, http>>

NextVerify == verifyContainer_call

SpecVerify == InitVerify /\ [][NextVerify]_vars

(* ----------------------- TransactionController ------------------------ *)
\* The transactions a store holds: the payer, the creator if there is another
\* one, and the receivers of the sub-transactions.
StoredSubTransactions ==
  {<<[toId |-> 1, amount |-> 100]>>, <<[toId |-> 2, amount |-> 100]>>,
   <<[toId |-> 1, amount |-> 100], [toId |-> 2, amount |-> 100]>>}
StoredTransactions ==
  {[fromId |-> f, createdById |-> c, subTransactions |-> subs, createdAt |-> 0] :
     f \in UserIds, c \in {Null} \cup UserIds, subs \in StoredSubTransactions}
TransactionStores ==
  {EmptyLedger} \cup {Insert(EmptyLedger, "Transaction", t) : t \in StoredTransactions}

\* TransactionResponse: from, createdBy? (absent when the payer created the
\* transaction) and the sub-transactions with their receivers.
asTransactionResponse(id, row) ==
  [id |-> id,
   from |-> [id |-> row.fromId],
   createdBy |-> IF row.createdById = Null THEN None ELSE Some([id |-> row.createdById]),
   subTransactions |-> [i \in DOMAIN row.subTransactions |->
                          [to |-> [id |-> row.subTransactions[i].toId]]]]

\* TransactionService.getSingleTransaction(id): the response, or undefined.
getSingleTransaction(l, id) ==
  IF id \in DOMAIN l.Transaction THEN Some(asTransactionResponse(id, l.Transaction[id]))
  ELSE None

\* A GET /transactions/:id exchange: the token's user, the id of the path, the
\* handler's position, the transaction it holds, the calls it made on res in
\* order, and whether it threw.
IdleTransactionExchange ==
  [user |-> 0, id |-> 0, pc |-> "idle", transaction |-> None, sent |-> << >>,
   threw |-> FALSE]

\* res.status(status).json(body) / res.status(status).send()
Write(x, status, body) == [x EXCEPT !.sent = Append(@, [status |-> status, body |-> body])]
Return(x) == [x EXCEPT !.pc = "done"]
\* Reading .id of an undefined createdBy throws a TypeError out of the handler.
Throw(x) == [x EXCEPT !.pc = "done", !.threw = TRUE]

\* transaction.subTransactions.some((s) => s.to.id === req.token.user.id)
SomeTo(transaction, user) ==
  \E i \in DOMAIN transaction.subTransactions : transaction.subTransactions[i].to.id = user

\* getTransaction from the end of its try block on.
getTransaction_rest(x) ==
  IF x.transaction = None
  THEN Return(Write(x, 404, "Unknown transaction ID."))
  ELSE LET transaction == x.transaction[1]
           forbidden == Write(x, 401,
                          "Forbidden: you are not in the to, from or createdBy field")
       IN IF transaction.from.id /= x.user
          THEN Return(Write(forbidden, 200, "transaction"))
          ELSE IF transaction.createdBy = None
          THEN Throw(x)
          ELSE IF transaction.createdBy[1].id /= x.user \/ ~SomeTo(transaction, x.user)
          THEN Return(Write(forbidden, 200, "transaction"))
          ELSE Return(Write(x, 200, "transaction"))

InitTransaction ==
  /\ db = EmptyDb
  /\ reqs = [s \in Slots |-> IdleRequest]
  /\ approvals = [product |-> [p \in ProductIds |-> 0],
                  container |-> [c \in ContainerIds |-> 0]]
  /\ led \in TransactionStores
  /\ freq = IdleFineRequest
  /\ http = IdleTransactionExchange

\* GET /transactions/:id arrives and the handler runs to its await.
getTransaction ==
  /\ http.pc = "idle"
  /\ \E user \in UserIds, id \in 1..MaxTransactions :
       http' = [IdleTransactionExchange EXCEPT !.user = user, !.id = id, !.pc = "await"]
  /\ UNCHANGED <<db, reqs, approvals, led, freq>>

\* The awaited getSingleTransaction resolves, and the handler runs to its end.
getSingleTransactionResolves ==
  /\ http.pc = "await"
  /\ http' = getTransaction_rest([http EXCEPT !.transaction =
                                    getSingleTransaction(led, http.id)])
  /\ UNCHANGED <<db, reqs, approvals, led, freq>>

\* The awaited getSingleTransaction rejects: the catch block answers 500 and
\* the handler goes on with transaction undefined.
getSingleTransactionRejects ==
  /\ http.pc = "await"
  /\ http' = getTransaction_rest(Write(http, 500, ""))
  /\ UNCHANGED <<db, reqs, approvals, led, freq>>

NextTransaction ==
  \/ getTransaction
  \/ getSingleTransactionResolves
  \/ getSingleTransactionRejects

SpecTransaction == InitTransaction /\ [][NextTransaction]_vars

(* ------------------------------ claims --------------------------------- *)
Quiescent == \A s \in Slots : reqs[s].pc = "done"
Done(s, op) == reqs[s].pc = "done" /\ reqs[s].op = op

ProductRevisionsOf(d, p) == {k[2] : k \in {j \in DOMAIN d.ProductRevision : j[1] = p}}
ContainerRevisionsOf(d, c) == {k[2] : k \in {j \in DOMAIN d.ContainerRevision : j[1] = c}}
Highest(S) == IF S = {} THEN Null ELSE CHOOSE x \in S : \A y \in S : y <= x
Pointer(n) == IF n = 0 THEN Null ELSE n

\* C1: between requests, a base with N successful approvals (nested ones
\* included) has currentRevision N (NULL when N = 0) and exactly the revision
\* records numbered 1..N.
C1_RevisionsMatchApprovals ==
  Quiescent =>
    /\ \A p \in DOMAIN db.Product :
         /\ db.Product[p].currentRevision = Pointer(approvals.product[p])
         /\ ProductRevisionsOf(db, p) = 1..approvals.product[p]
    /\ \A c \in DOMAIN db.Container :
         /\ db.Container[c].currentRevision = Pointer(approvals.container[c])
         /\ ContainerRevisionsOf(db, c) = 1..approvals.container[c]

C1_Witness ==
  /\ Quiescent
  /\ 1 \in DOMAIN db.Product /\ approvals.product[1] = 2
  /\ 1 \in DOMAIN db.Container /\ approvals.container[1] = 2

\* C2: in every state, also between the writes of one approval, each base's
\* currentRevision is the highest revision number among its revision records
\* (NULL exactly when it has none).
C2_PointerIsHighestRevision ==
  /\ \A p \in DOMAIN db.Product :
       db.Product[p].currentRevision = Highest(ProductRevisionsOf(db, p))
  /\ \A c \in DOMAIN db.Container :
       db.Container[c].currentRevision = Highest(ContainerRevisionsOf(db, c))

\* C3: an approve for a base that does not exist, or that has no pending
\* draft, returns undefined (404 "Product update not found." for a product)
\* and leaves the whole store as it was.
C3_ApproveWithoutDraftNotFound ==
  \A s \in Slots :
    /\ (Done(s, "approveProductUpdate")
        /\ (\/ reqs[s].id \notin DOMAIN reqs[s].pre.Product
            \/ reqs[s].id \notin DOMAIN reqs[s].pre.UpdatedProduct))
         => /\ reqs[s].out = "notfound"
            /\ reqs[s].resp = None
            /\ approveProductRoute(reqs[s].resp).status = 404
            /\ db = reqs[s].pre
    /\ (Done(s, "approveContainerUpdate")
        /\ (\/ reqs[s].id \notin DOMAIN reqs[s].pre.Container
            \/ reqs[s].id \notin DOMAIN reqs[s].pre.UpdatedContainer))
         => /\ reqs[s].out = "notfound"
            /\ reqs[s].resp = None
            /\ db = reqs[s].pre

C3_Witness ==
  \E s \in Slots :
    /\ Done(s, "approveProductUpdate")
    /\ reqs[s].id \in DOMAIN reqs[s].pre.Product
    /\ reqs[s].pre.Product[reqs[s].id].currentRevision = 1
    /\ reqs[s].id \notin DOMAIN reqs[s].pre.UpdatedProduct
    /\ reqs[s].out = "notfound"

\* C4: an approval that fails at any step leaves the store exactly as it was
\* before the call.
C4_FailedApprovalChangesNothing ==
  \A s \in Slots :
    (/\ reqs[s].pc = "done"
     /\ reqs[s].op \in {"approveProductUpdate", "approveContainerUpdate"}
     /\ reqs[s].out = "error")
      => db = reqs[s].pre

\* C5: a persisted container revision keeps its set of (product, revision)
\* pairs, and a persisted product revision its columns, in every later state.
C5_Pinning ==
  [][/\ \A k \in DOMAIN db.ContainerRevision :
          k \in DOMAIN db'.ContainerRevision
          /\ db'.ContainerRevision[k] = db.ContainerRevision[k]
     /\ \A k \in DOMAIN db.ProductRevision :
          k \in DOMAIN db'.ProductRevision
          /\ db'.ProductRevision[k] = db.ProductRevision[k]]_vars

C5_Witness ==
  /\ <<1, 1>> \in DOMAIN db.ContainerRevision
  /\ <<1, 2>> \in DOMAIN db.ContainerRevision
  /\ <<1, 1>> \in db.ContainerRevision[<<1, 1>>].products
  /\ db.ContainerRevision[<<1, 2>>].products /= db.ContainerRevision[<<1, 1>>].products
  /\ 1 \in DOMAIN db.Product /\ db.Product[1].currentRevision = 2

\* C6: a successful approveContainerUpdate creates a revision that references,
\* for each product of the approved draft, exactly (product, the product's
\* currentRevision), and nothing else.
C6_PinsCurrentRevisionsOnly ==
  \A s \in Slots :
    (Done(s, "approveContainerUpdate") /\ reqs[s].out = "ok")
      => db.ContainerRevision[<<reqs[s].id, db.Container[reqs[s].id].currentRevision>>].products
           = {<<p, db.Product[p].currentRevision>> :
                p \in reqs[s].pre.UpdatedContainer[reqs[s].id].products}

\* C7: updateProduct / updateContainer on a base that already has a draft
\* replaces that draft with the later proposal, adds no draft, and changes no
\* currentRevision and no revision record.
C7_LaterDraftReplaces ==
  \A s \in Slots :
    /\ (Done(s, "updateProduct") /\ reqs[s].id \in DOMAIN reqs[s].pre.UpdatedProduct)
         => /\ reqs[s].out = "ok"
            /\ DOMAIN db.UpdatedProduct = DOMAIN reqs[s].pre.UpdatedProduct
            /\ db.UpdatedProduct[reqs[s].id] = reqs[s].arg[1]
            /\ \A q \in DOMAIN db.UpdatedProduct \ {reqs[s].id} :
                 db.UpdatedProduct[q] = reqs[s].pre.UpdatedProduct[q]
            /\ db.Product = reqs[s].pre.Product
            /\ db.ProductRevision = reqs[s].pre.ProductRevision
    /\ (Done(s, "updateContainer") /\ reqs[s].id \in DOMAIN reqs[s].pre.UpdatedContainer)
         => /\ reqs[s].out = "ok"
            /\ DOMAIN db.UpdatedContainer = DOMAIN reqs[s].pre.UpdatedContainer
            /\ db.UpdatedContainer[reqs[s].id].name = reqs[s].arg[1].name
            /\ db.UpdatedContainer[reqs[s].id].products
                 = reqs[s].arg[1].products \cap DOMAIN db.Product
            /\ db.Container = reqs[s].pre.Container
            /\ db.ContainerRevision = reqs[s].pre.ContainerRevision

C7_Witness ==
  \E s \in Slots :
    /\ Done(s, "updateProduct")
    /\ reqs[s].id \in DOMAIN reqs[s].pre.UpdatedProduct
    /\ reqs[s].pre.UpdatedProduct[reqs[s].id] /= reqs[s].arg[1]
    /\ reqs[s].pre.Product[reqs[s].id].currentRevision = 1

\* C8: after a successful approve of base b with draft d, b has no draft, the
\* new revision holds d's fields, and the response carries b's id and b's new
\* currentRevision (for a product it is what a read of b returns next).
C8_ApproveResponse ==
  \A s \in Slots :
    /\ (Done(s, "approveProductUpdate") /\ reqs[s].out = "ok")
         => /\ reqs[s].id \notin DOMAIN db.UpdatedProduct
            /\ db.ProductRevision[<<reqs[s].id, db.Product[reqs[s].id].currentRevision>>]
                 = reqs[s].pre.UpdatedProduct[reqs[s].id]
            /\ reqs[s].resp /= None
            /\ reqs[s].resp[1].id = reqs[s].id
            /\ reqs[s].resp[1].revision = db.Product[reqs[s].id].currentRevision
            /\ reqs[s].resp = getProducts(db, reqs[s].id)
    /\ (Done(s, "approveContainerUpdate") /\ reqs[s].out = "ok")
         => /\ reqs[s].id \notin DOMAIN db.UpdatedContainer
            /\ db.ContainerRevision[
                 <<reqs[s].id, db.Container[reqs[s].id].currentRevision>>].name
                 = reqs[s].pre.UpdatedContainer[reqs[s].id].name
            /\ reqs[s].resp /= None
            /\ reqs[s].resp[1].id = reqs[s].id
            /\ reqs[s].resp[1].revision = db.Container[reqs[s].id].currentRevision

\* C9: from the same store, the auto-approving and the strict
\* approveContainerUpdate end with the same outcome and the same store.
C9_OnePolicy ==
  Quiescent =>
    \A c \in ContainerIds :
      ApproveContainerOutcome("auto", db, c) = ApproveContainerOutcome("strict", db, c)

FineDone(op) == freq.op = op /\ freq.pc = "done"
Quotients == (0 - (MaxBalance \div 500 + 1))..(MaxBalance \div 500 + 1)

\* C11: calculateFine(b) = min(max(floor(-b / 500) * 100, 0), 500): a multiple
\* of 100 in [0, 500], 0 for b >= -499, 100 for -999 <= b <= -500, 200 for
\* b = -1000 and 500 for b <= -2500.
C11_FineBands ==
  FineDone("calculateFine") =>
    LET b == freq.arg[1].balance
        fine == freq.resp[1].amount
    IN /\ fine \in {0, 100, 200, 300, 400, 500}
       /\ \E q \in Quotients :
            /\ 500 * q <= 0 - b
            /\ 0 - b < 500 * (q + 1)
            /\ fine = Min(Max(q * 100, 0), 500)
       /\ b >= -499 => fine = 0
       /\ (-999 <= b /\ b <= -500) => fine = 100
       /\ b = -1000 => fine = 200
       /\ b <= -2500 => fine = 500

C11_Witness ==
  /\ FineDone("calculateFine")
  /\ freq.arg[1].balance = -1000
  /\ freq.resp[1].amount = 200

\* The balance of a user in ledger l as of a date.
BalanceAt(l, userId, date) ==
  SumAmounts(l.Transfer, {t \in DOMAIN l.Transfer :
                            /\ l.Transfer[t].toId = userId
                            /\ l.Transfer[t].createdAt <= date})
  - SumAmounts(l.Transfer, {t \in DOMAIN l.Transfer :
                              /\ l.Transfer[t].fromId = userId
                              /\ l.Transfer[t].createdAt <= date})
InFilter(userId, userTypes, userIds) ==
  /\ userTypes /= None => UserTypeOf(userId) \in userTypes[1]
  /\ userIds /= None => userId \in userIds[1]
ReferenceTime(l, referenceDate) ==
  IF referenceDate = None THEN l.now ELSE referenceDate[1]
DebtorOnBoth(l, userId, referenceDate) ==
  /\ BalanceAt(l, userId, ReferenceTime(l, referenceDate)) < -500
  /\ BalanceAt(l, userId, l.now) < -500

Created(table) == DOMAIN led[table] \ DOMAIN freq.pre[table]
FinedUser(l, fine) == l.UserFineGroup[l.Fine[fine].userFineGroup].userId
FinesCreatedFor(userId) ==
  {f \in Created("Fine") :
     /\ led.Fine[f].userFineGroup \in DOMAIN led.UserFineGroup
     /\ FinedUser(led, f) = userId}

\* C13: a successful handOutFines creates exactly one FineHandoutEvent and,
\* for every user of the batch, exactly one Fine linked to that event and
\* exactly one debiting Transfer (from the user, no destination) of the
\* fine's amount; no user receives two.
C13_OneFinePerUser ==
  (FineDone("handOutFines") /\ freq.out = "ok") =>
    LET userIds == freq.arg[1].userIds
    IN /\ Cardinality(Created("FineHandoutEvent")) = 1
       /\ Cardinality(Created("Fine")) = Cardinality(userIds)
       /\ Cardinality(Created("Transfer")) = Cardinality(userIds)
       /\ \A u \in userIds :
            /\ Cardinality(FinesCreatedFor(u)) = 1
            /\ Cardinality({t \in Created("Transfer") :
                              led.Transfer[t].fromId = u}) = 1
            /\ \A f \in FinesCreatedFor(u) :
                 /\ led.Fine[f].fineHandoutEvent \in Created("FineHandoutEvent")
                 /\ led.Fine[f].transfer \in Created("Transfer")
                 /\ led.Transfer[led.Fine[f].transfer] =
                      [fromId |-> u, toId |-> Null, amount |-> led.Fine[f].amount,
                       createdAt |-> freq.pre.now]

C13_Witness ==
  /\ FineDone("handOutFines")
  /\ freq.out = "ok"
  /\ freq.arg[1].userIds = UserIds
  /\ \A u \in UserIds : \E f \in FinesCreatedFor(u) : led.Fine[f].amount > 0

\* C14: when handOutFines fails, none of the FineHandoutEvent, Fine,
\* Transfer or UserFineGroup rows it created remains and no user's
\* currentFines has changed: the rows are those of before the call.
C14_FailedHandOutChangesNothing ==
  (FineDone("handOutFines") /\ freq.out = "error") =>
    Tables(led) = Tables(freq.pre)

\* C15: a fine email is handed to the mailer only once the transaction has
\* committed, when the user's Fine and Transfer are in the store; a handout
\* that rolled back has sent nothing.
C15_MailAfterCommit ==
  freq.op = "handOutFines" =>
    /\ freq.out = "error" => freq.sent = {}
    /\ \A m \in freq.sent :
         /\ freq.committed
         /\ \E f \in DOMAIN led.Fine :
              /\ led.Fine[f].fineHandoutEvent = freq.event
              /\ FinedUser(led, f) = m.user
              /\ led.Fine[f].transfer \in DOMAIN led.Transfer
              /\ led.Transfer[led.Fine[f].transfer].fromId = m.user

C15_Witness ==
  /\ FineDone("handOutFines")
  /\ freq.committed
  /\ {m.user : m \in freq.sent} = UserIds

\* C16: when a notification fails after the commit, the committed rows stay
\* as they were committed, handOutFines still succeeds, and the emails of
\* all the users of the batch are still attempted.
C16_MailFailureIsHarmless ==
  (FineDone("handOutFines") /\ freq.committed /\ freq.arg[1].mailFails /= {}) =>
    /\ freq.out = "ok"
    /\ Tables(led) = Tables(freq.tx)
    /\ Cardinality(Created("FineHandoutEvent")) = 1
    /\ \A u \in freq.arg[1].userIds :
         /\ FinesCreatedFor(u) /= {}
         /\ \E m \in freq.sent : m.user = u

C16_Witness ==
  /\ FineDone("handOutFines")
  /\ freq.committed
  /\ freq.arg[1].userIds = UserIds
  /\ freq.out = "ok"
  /\ \E m \in freq.sent : ~m.delivered
  /\ \E m \in freq.sent : m.delivered

FinesOfGroup(l, group) == {f \in DOMAIN l.Fine : l.Fine[f].userFineGroup = group}

\* C17: waiveFines on a user with an active fine group creates exactly one
\* crediting Transfer (to the user, no source) of the sum of the group's
\* fines, records it as the group's waivedTransfer, clears the user's
\* currentFines and deletes no Fine; on a user without an active group
\* (so also on a second call) it creates no Transfer and changes nothing.
C17_WaiveFines ==
  FineDone("waiveFines") =>
    LET u == freq.arg[1].userId
        pre == freq.pre
        g == IF u \in UserIds THEN CurrentFines(pre, u) ELSE Null
    IN IF g = Null
       THEN Tables(led) = Tables(pre)
       ELSE /\ freq.out = "ok"
            /\ Cardinality(Created("Transfer")) = 1
            /\ \A t \in Created("Transfer") :
                 /\ led.Transfer[t] =
                      [fromId |-> Null, toId |-> u,
                       amount |-> SumAmounts(pre.Fine, FinesOfGroup(pre, g)),
                       createdAt |-> pre.now]
                 /\ led.UserFineGroup =
                      [pre.UserFineGroup EXCEPT ![g].waivedTransfer = t]
                 /\ led.Transfer = Put(pre.Transfer, t, led.Transfer[t])
            /\ led.currentFines = [pre.currentFines EXCEPT ![u] = Null]
            /\ led.Fine = pre.Fine
            /\ led.FineHandoutEvent = pre.FineHandoutEvent

C17_Witness ==
  /\ FineDone("waiveFines")
  /\ freq.arg[1].userId \in UserIds
  /\ CurrentFines(freq.pre, freq.arg[1].userId) /= Null
  /\ Cardinality(FinesOfGroup(freq.pre, CurrentFines(freq.pre, freq.arg[1].userId))) = 2
  /\ \E t \in Created("Transfer") : led.Transfer[t].amount = 300

\* C18: after a Transfer with destination U is inserted: if U had an active
\* fine group and the recomputed balance is >= 0, U's currentFines is
\* cleared; if the balance is < 0 it stays set; no Fine or UserFineGroup is
\* deleted. A Transfer without destination never changes a currentFines.
C18_DebtPaidClearsCurrentFines ==
  (FineDone("createTransfer") /\ freq.out = "ok") =>
    LET u == freq.arg[1].toId
        pre == freq.pre
    IN /\ led.Fine = pre.Fine
       /\ led.UserFineGroup = pre.UserFineGroup
       /\ IF u = Null
          THEN led.currentFines = pre.currentFines
          ELSE /\ \A v \in UserIds \ {u} : led.currentFines[v] = pre.currentFines[v]
               /\ (CurrentFines(pre, u) /= Null /\ BalanceAt(led, u, pre.now) >= 0)
                    => led.currentFines[u] = Null
               /\ (CurrentFines(pre, u) /= Null /\ BalanceAt(led, u, pre.now) < 0)
                    => led.currentFines[u] = pre.currentFines[u]

C18_Witness ==
  /\ FineDone("createTransfer")
  /\ freq.out = "ok"
  /\ freq.arg[1].toId /= Null
  /\ CurrentFines(freq.pre, freq.arg[1].toId) /= Null
  /\ BalanceAt(led, freq.arg[1].toId, freq.pre.now) >= 0
  /\ led.currentFines[freq.arg[1].toId] = Null

\* C19: deleteFine removes the Fine and its Transfer, removes the
\* UserFineGroup exactly when that was the group's only Fine, keeps the
\* FineHandoutEvent and leaves every other Fine and Transfer; for an id that
\* does not exist it changes nothing.
C19_DeleteFine ==
  FineDone("deleteFine") =>
    LET id == freq.arg[1].id
        pre == freq.pre
    IN IF id \notin DOMAIN pre.Fine
       THEN Tables(led) = Tables(pre)
       ELSE LET g == pre.Fine[id].userFineGroup
            IN /\ led.Fine = Remove(pre.Fine, id)
               /\ led.Transfer = Remove(pre.Transfer, pre.Fine[id].transfer)
               /\ led.UserFineGroup =
                    IF FinesOfGroup(pre, g) = {id}
                    THEN Remove(pre.UserFineGroup, g)
                    ELSE pre.UserFineGroup
               /\ led.FineHandoutEvent = pre.FineHandoutEvent

C19_Witness ==
  /\ FineDone("deleteFine")
  /\ freq.arg[1].id \in DOMAIN freq.pre.Fine
  /\ Cardinality(FinesOfGroup(freq.pre, freq.pre.Fine[freq.arg[1].id].userFineGroup)) = 2
  /\ freq.pre.Fine[freq.arg[1].id].userFineGroup \in DOMAIN led.UserFineGroup

TransferSign(transfer, a) ==
  (IF transfer.toId = a THEN transfer.amount ELSE 0)
  - (IF transfer.fromId = a THEN transfer.amount ELSE 0)
RECURSIVE ReplayTransfers(_, _, _, _)
ReplayTransfers(l, id, a, t) ==
  IF id = 0 THEN 0
  ELSE ReplayTransfers(l, id - 1, a, t)
       + (IF id \in DOMAIN l.Transfer /\ l.Transfer[id].createdAt <= t
          THEN TransferSign(l.Transfer[id], a) ELSE 0)
RECURSIVE RowsTo(_, _, _)
RowsTo(subTransactions, i, a) ==
  IF i = 0 THEN 0
  ELSE RowsTo(subTransactions, i - 1, a)
       + (IF subTransactions[i].toId = a THEN subTransactions[i].amount ELSE 0)
RECURSIVE RowsTotal(_, _)
RowsTotal(subTransactions, i) ==
  IF i = 0 THEN 0 ELSE RowsTotal(subTransactions, i - 1) + subTransactions[i].amount
RECURSIVE ReplayTransactions(_, _, _, _)
ReplayTransactions(l, id, a, t) ==
  IF id = 0 THEN 0
  ELSE ReplayTransactions(l, id - 1, a, t)
       + (IF id \in DOMAIN l.Transaction /\ l.Transaction[id].createdAt <= t
          THEN RowsTo(l.Transaction[id].subTransactions,
                      Len(l.Transaction[id].subTransactions), a)
               - (IF l.Transaction[id].fromId = a
                  THEN RowsTotal(l.Transaction[id].subTransactions,
                                 Len(l.Transaction[id].subTransactions))
                  ELSE 0)
          ELSE 0)
BalanceByReplay(l, a, t) ==
  ReplayTransfers(l, l.seq.Transfer, a, t)
  + ReplayTransactions(l, l.seq.Transaction, a, t)
OnlyBought(l, a) ==
  /\ \A x \in DOMAIN l.Transfer : l.Transfer[x].toId /= a /\ l.Transfer[x].fromId /= a
  /\ \A x \in DOMAIN l.Transaction :
       \A i \in DOMAIN l.Transaction[x].subTransactions :
          l.Transaction[x].subTransactions[i].toId /= a
RECURSIVE CostUpTo(_, _, _)
CostUpTo(l, id, a) ==
  IF id = 0 THEN 0
  ELSE CostUpTo(l, id - 1, a)
       + (IF id \in DOMAIN l.Transaction /\ l.Transaction[id].fromId = a
          THEN RowsTotal(l.Transaction[id].subTransactions,
                         Len(l.Transaction[id].subTransactions))
          ELSE 0)
CostOf(l, a) == CostUpTo(l, l.seq.Transaction, a)

HasEndpoint(transfer) == transfer.fromId /= Null \/ transfer.toId /= Null

SavesRevision(r) ==
  r.pc = "saveRevision" /\ r.op \in {"approveProductUpdate", "approveContainerUpdate"}
RevisionKey(r) == <<r.id, NextRevision(r.base[1].currentRevision)>>
Persisted(d, r) ==
  IF r.op = "approveProductUpdate" THEN RevisionKey(r) \in DOMAIN d.ProductRevision
  ELSE RevisionKey(r) \in DOMAIN d.ContainerRevision

\* C23: under every interleaving of the requests, no approval ever saves a
\* revision record that is already persisted: neither a request of its own
\* nor a product approval nested in a container approval is about to write
\* the key of an existing ProductRevision or ContainerRevision.
C23_NoWriteToPersistedRevision ==
  \A s \in DOMAIN reqs :
    /\ SavesRevision(reqs[s]) => ~Persisted(db, reqs[s])
    /\ \A p \in DOMAIN reqs[s].subs :
         SavesRevision(reqs[s].subs[p]) => ~Persisted(db, reqs[s].subs[p])

(* ------------------------- claims on list reads ------------------------ *)
ListOps == {"getContainers", "getUpdatedContainers", "getFineHandoutEvents"}

\* The number of records a list read matches in the store it reads.
Matching(op) ==
  IF op = "getContainers"
  THEN Cardinality({c \in DOMAIN db.Container :
                      <<c, db.Container[c].currentRevision>>
                        \in DOMAIN db.ContainerRevision})
  ELSE IF op = "getUpdatedContainers"
       THEN Cardinality(DOMAIN db.Container \cap DOMAIN db.UpdatedContainer)
       ELSE Cardinality(DOMAIN led.FineHandoutEvent)

\* The length of the page of n matching records under take and skip.
PageLength(n, take, skip) ==
  LET rest == IF skip = Undefined \/ skip = 0 THEN n
              ELSE IF skip >= n THEN 0 ELSE n - skip
  IN IF take = Undefined \/ take >= rest THEN rest ELSE take

\* C24: every list read echoes the take and skip it was given, reports as
\* count the number of records matching its filter whatever take and skip
\* are, and returns the page of the matching records that starts after skip
\* of them and holds at most take: as many records as are left, up to take.
C24_ListReadsArePaged ==
  \A s \in Slots :
    (reqs[s].pc = "done" /\ reqs[s].op \in ListOps) =>
      LET page == reqs[s].resp[1]
          arg == reqs[s].arg[1]
      IN /\ page.pagination.take = arg.take
         /\ page.pagination.skip = arg.skip
         /\ page.pagination.count = Matching(reqs[s].op)
         /\ Len(page.records) = PageLength(Matching(reqs[s].op), arg.take, arg.skip)

(* --------------------------- claims on routes -------------------------- *)
\* C25: on every route the handler is invoked, or about to be, only after
\* the route's policy has returned true for the request; a request the
\* policy has denied is answered with 403 and an empty body, its handler is
\* not invoked and the store is as it was when the request arrived.
C25_HandlerOnlyAfterPolicy ==
  /\ (http.invoked \/ InChain("handler")) => http.policy = Some(TRUE)
  /\ http.policy = Some(FALSE) =>
       /\ http.status = 403
       /\ http.body = ""
       /\ http.chain = << >>
       /\ ~http.invoked
       /\ db = http.pre

\* POST /products with a valid product by a non-admin, while a product
\* exists: denied, and the products are as they were.
C25_Witness ==
  /\ http.route = "POST_products"
  /\ http.req[1].body \in ProductRequests
  /\ ~http.req[1].admin
  /\ http.policy = Some(FALSE)
  /\ http.status = 403
  /\ DOMAIN http.pre.Product /= {}
  /\ DOMAIN db.Product = DOMAIN http.pre.Product

(* ------------------------- claims on read lenses ----------------------- *)
ReadDone(op) == reqs[1].pc = "done" /\ reqs[1].op = op
EntriesOf(p) == {e \in reqs[1].resp[1] : e.id = p}

\* C26: getProducts without a revision filter returns exactly one entry per
\* product whose currentRevision is set, with the name and price of that
\* revision, and no entry for a product never approved; getUpdatedProducts
\* returns exactly one entry per product with a pending draft, with the
\* draft's name and price; neither returns an entry of anything else.
C26_ReadLenses ==
  /\ ReadDone("getProducts") =>
       /\ \A e \in reqs[1].resp[1] : e.id \in DOMAIN db.Product
       /\ \A p \in DOMAIN db.Product :
            IF db.Product[p].currentRevision = Null THEN EntriesOf(p) = {}
            ELSE LET row == db.ProductRevision[<<p, db.Product[p].currentRevision>>]
                 IN \E e \in EntriesOf(p) :
                      /\ EntriesOf(p) = {e}
                      /\ e.revision = db.Product[p].currentRevision
                      /\ e.name = row.name
                      /\ e.price.amount = row.price
  /\ ReadDone("getUpdatedProducts") =>
       /\ \A e \in reqs[1].resp[1] : e.id \in DOMAIN db.Product
       /\ \A p \in DOMAIN db.Product :
            IF p \notin DOMAIN db.UpdatedProduct THEN EntriesOf(p) = {}
            ELSE \E e \in EntriesOf(p) :
                   /\ EntriesOf(p) = {e}
                   /\ e.name = db.UpdatedProduct[p].name
                   /\ e.price.amount = db.UpdatedProduct[p].price

\* Read of the current revisions of a store with a never-approved product
\* and a product that has two revisions and a pending draft whose fields
\* differ from the current revision's.
C26_Witness ==
  /\ ReadDone("getProducts")
  /\ \E p, q \in DOMAIN db.Product :
       /\ db.Product[p].currentRevision = Null
       /\ db.Product[q].currentRevision = 2
       /\ q \in DOMAIN db.UpdatedProduct
       /\ db.UpdatedProduct[q].price
            /= db.ProductRevision[<<q, 2>>].price
       /\ Cardinality(EntriesOf(q)) = 1
       /\ EntriesOf(p) = {}

(* --------------------- claims on container approval ------------------- *)
\* Request r approves a container whose draft, when the request arrived,
\* listed at least one product with a pending draft.
ListsPendingProduct(r) ==
  /\ r.op = "approveContainerUpdate"
  /\ r.id \in DOMAIN r.pre.Container
  /\ r.id \in DOMAIN r.pre.UpdatedContainer
  /\ r.pre.UpdatedContainer[r.id].products \cap DOMAIN r.pre.UpdatedProduct /= {}

\* C27: the strict approveContainerUpdate of a container whose draft lists a
\* product with a pending draft writes nothing at any of its steps and ends
\* with UnapprovedProductError: containers, products, their revisions and
\* their drafts are as before the call.
C27_StrictRejectsUnapprovedProducts ==
  \A s \in Slots :
    (ListsPendingProduct(reqs[s]) /\ reqs[s].svc = "strict") =>
      /\ db = reqs[s].pre
      /\ reqs[s].pc = "done" => (reqs[s].out = "error" /\ reqs[s].resp = None)

C27_Witness ==
  /\ Done(1, "approveContainerUpdate")
  /\ reqs[1].svc = "strict"
  /\ ListsPendingProduct(reqs[1])
  /\ reqs[1].out = "error"
  /\ db = reqs[1].pre
  /\ db.Container[reqs[1].id].currentRevision = 1

\* The product revisions of product p that the current revision of container
\* c pins in store d.
PinsOf(d, c, p) ==
  {k \in d.ContainerRevision[<<c, d.Container[c].currentRevision>>].products :
     k[1] = p}

\* C28: a successful auto-approving approveContainerUpdate raises the
\* currentRevision of every listed product that had a pending draft by
\* exactly one and deletes that draft, leaves every listed product without a
\* draft as it was, and the container revision it creates pins each
\* auto-approved product at its new revision and at no other revision.
C28_AutoApprovesEachOnce ==
  \A s \in Slots :
    (/\ Done(s, "approveContainerUpdate")
     /\ reqs[s].svc = "auto"
     /\ reqs[s].out = "ok") =>
      LET pre == reqs[s].pre
          c == reqs[s].id
      IN \A p \in pre.UpdatedContainer[c].products \cap DOMAIN pre.Product :
           IF p \in DOMAIN pre.UpdatedProduct
           THEN /\ db.Product[p].currentRevision
                     = NextRevision(pre.Product[p].currentRevision)
                /\ p \notin DOMAIN db.UpdatedProduct
                /\ PinsOf(db, c, p) = {<<p, db.Product[p].currentRevision>>}
           ELSE /\ db.Product[p] = pre.Product[p]
                /\ \A k \in DOMAIN db.ProductRevision :
                     k[1] = p => k \in DOMAIN pre.ProductRevision

(* ---------------------- claims on container drafts -------------------- *)
\* C29: updateContainer never ends in an error; on an existing container it
\* saves a draft whose product list is exactly the listed ids that are ids of
\* product base records (the other ids are dropped), and on a container id
\* that does not exist it returns no response and leaves the store, and so
\* the drafts, as they were.
C29_UpdateContainerDropsUnknownProducts ==
  \A s \in Slots :
    Done(s, "updateContainer") =>
      LET pre == reqs[s].pre
          listed == reqs[s].arg[1].products
      IN IF reqs[s].id \in DOMAIN pre.Container
         THEN /\ reqs[s].out = "ok"
              /\ reqs[s].id \in DOMAIN db.UpdatedContainer
              /\ db.UpdatedContainer[reqs[s].id].products
                   = {p \in listed : p \in DOMAIN pre.Product}
              /\ db.UpdatedContainer[reqs[s].id].name = reqs[s].arg[1].name
         ELSE /\ reqs[s].out = "notfound"
              /\ reqs[s].resp = None
              /\ db = pre

\* An update listing product 1, which exists, and an id no product has.
C29_Witness ==
  /\ Done(1, "updateContainer")
  /\ reqs[1].out = "ok"
  /\ 1 \in DOMAIN db.Product
  /\ reqs[1].arg[1].products \ DOMAIN db.Product /= {}
  /\ db.UpdatedContainer[reqs[1].id].products = {1}

(* ------------------------ claims on fine warnings ---------------------- *)
\* The date sendFineWarnings announces: referenceDate if given, otherwise the
\* date of the last fine handout event, otherwise now.
WarningDate(l, referenceDate) ==
  IF referenceDate /= None THEN referenceDate[1]
  ELSE IF DOMAIN l.FineHandoutEvent /= {}
       THEN l.FineHandoutEvent[Highest(DOMAIN l.FineHandoutEvent)].createdAt
       ELSE l.now

\* C30: sendFineWarnings warns exactly the users of userIds in debt both on
\* the effective date d and now, and the fine of each warning is
\* calculateFine of the user's balance on d, where d is referenceDate if
\* given, otherwise the date of the last handout event, otherwise now.
C30_WarningsUseEffectiveDate ==
  FineDone("sendFineWarnings") =>
    LET l == freq.pre
        d == WarningDate(l, freq.arg[1].referenceDate)
    IN /\ {m.user : m \in freq.sent} =
            {u \in freq.arg[1].userIds :
               BalanceAt(l, u, d) < -500 /\ BalanceAt(l, u, l.now) < -500}
       /\ \A m \in freq.sent :
            /\ m.referenceDate = d
            /\ m.fine = Max(Min(((-BalanceAt(l, m.user, d)) \div 500) * 100, 500), 0)

(* ---------------------- claims on the fines of a user ------------------ *)
\* The Fines user userId received in the last handout event of ledger l.
FinesOfLastEvent(l, userId) ==
  {f \in DOMAIN l.Fine :
     /\ DOMAIN l.FineHandoutEvent /= {}
     /\ l.Fine[f].fineHandoutEvent = Highest(DOMAIN l.FineHandoutEvent)
     /\ l.Fine[f].userFineGroup \in DOMAIN l.UserFineGroup
     /\ FinedUser(l, f) = userId}

\* C31: every Fine a successful handOutFines created has a previousFine
\* exactly when its user received a Fine in the handout event that was the
\* last one before the call; that previousFine is then that Fine and is of
\* the same UserFineGroup as the new Fine.
C31_PreviousFineOfSameGroup ==
  (FineDone("handOutFines") /\ freq.out = "ok") =>
    \A u \in freq.arg[1].userIds :
      \A f \in FinesCreatedFor(u) :
        IF FinesOfLastEvent(freq.pre, u) = {}
        THEN led.Fine[f].previousFine = Null
        ELSE /\ led.Fine[f].previousFine \in FinesOfLastEvent(freq.pre, u)
             /\ freq.pre.Fine[led.Fine[f].previousFine].userFineGroup
                  = led.Fine[f].userFineGroup

\* C32: in every reachable state each Fine is of one existing UserFineGroup
\* and is linked to one existing Transfer, which is from that group's user,
\* has no destination and carries the Fine's amount; no Transfer is linked to
\* two Fines.
C32_FineHasItsOwnTransfer ==
  /\ \A f \in DOMAIN led.Fine :
       /\ led.Fine[f].userFineGroup \in DOMAIN led.UserFineGroup
       /\ led.Fine[f].transfer \in DOMAIN led.Transfer
       /\ led.Transfer[led.Fine[f].transfer].fromId = FinedUser(led, f)
       /\ led.Transfer[led.Fine[f].transfer].toId = Null
       /\ led.Transfer[led.Fine[f].transfer].amount = led.Fine[f].amount
  /\ \A f, g \in DOMAIN led.Fine :
       led.Fine[f].transfer = led.Fine[g].transfer => f = g

\* Two Fines of one group stand next to other Transfers, after a Fine of
\* the ledger was deleted.
C32_Witness ==
  /\ \E f, g \in DOMAIN led.Fine :
       f /= g /\ led.Fine[f].userFineGroup = led.Fine[g].userFineGroup
  /\ Cardinality(DOMAIN led.Transfer) > Cardinality(DOMAIN led.Fine)
  /\ led.seq.Fine > Cardinality(DOMAIN led.Fine)

\* C33: after a successful handOutFines every Fine it created is of the
\* UserFineGroup that is its user's active fine group (user.currentFines), a
\* UserFineGroup was created only for a user who had no active group, and
\* every group the call created that holds Fines is some user's active group.
C33_FinesInActiveGroup ==
  (FineDone("handOutFines") /\ freq.out = "ok") =>
    /\ \A u \in freq.arg[1].userIds :
         \A f \in FinesCreatedFor(u) : led.Fine[f].userFineGroup = led.currentFines[u]
    /\ \A g \in Created("UserFineGroup") :
         CurrentFines(freq.pre, led.UserFineGroup[g].userId) = Null
    /\ \A g \in Created("UserFineGroup") :
         GroupFines(led, g) /= {} => \E u \in UserIds : led.currentFines[u] = g

\* Whether user userId is a debtor on the date handOutFines computes the
\* balances for: the balance on that date is at most the debtor threshold, so
\* that the fine computed for it is positive.
QualifiesOn(l, userId, date) == BalanceAt(l, userId, date) <= DebtorThreshold

\* C34: a successful handOutFines creates a Fine, a Transfer, a UserFineGroup
\* and an email only for users of userIds whose computed fine on the reference
\* date is positive, and no Fine and no Transfer linked to a Fine has amount 0.
C34_NoFineOfZero ==
  /\ (FineDone("handOutFines") /\ freq.out = "ok") =>
        \A u \in UserIds :
          (u \notin freq.arg[1].userIds \/ ~QualifiesOn(freq.pre, u, freq.date)) =>
            /\ FinesCreatedFor(u) = {}
            /\ \A t \in Created("Transfer") : led.Transfer[t].fromId /= u
            /\ \A g \in Created("UserFineGroup") : led.UserFineGroup[g].userId /= u
            /\ \A e \in freq.emails : e.user /= u
  /\ \A f \in DOMAIN led.Fine :
        /\ led.Fine[f].amount /= 0
        /\ led.Fine[f].transfer \in DOMAIN led.Transfer =>
              led.Transfer[led.Fine[f].transfer].amount /= 0

(* ------------------- claims on overlapping draft writes ---------------- *)
\* Request r is an approval about to run UpdatedProduct.delete(productId).
DeletesDraft(r) == r.op = "approveProductUpdate" /\ r.pc = "deleteUpdate"

\* C35: under every interleaving of updateProduct with approveProductUpdate
\* of the same product, the draft an approval is about to delete is the draft
\* whose name and price it read into the revision it created: no draft
\* written after that read is deleted unapproved.
C35_NoDraftLost ==
  \A s \in DOMAIN reqs :
    (DeletesDraft(reqs[s]) /\ reqs[s].id \in DOMAIN db.UpdatedProduct) =>
      /\ db.UpdatedProduct[reqs[s].id].name = reqs[s].update[1].name
      /\ db.UpdatedProduct[reqs[s].id].price = reqs[s].update[1].price.amount

\* The revision the container part of request r's response names.
RespondedRevision(r) == <<r.id, r.resp[1].revision>>

\* The products the second query of getProductsResponse reads now, as
\* (product, revision) keys.
ProductsRead(d, r, updated) ==
  {<<e.id, e.revision>> : e \in getContainerProducts(d, r.id, updated)}

\* The container part read by approveContainerUpdate names a persisted
\* revision of that name, which pins the products the second query reads.
OfOneRevision(d, r) ==
  /\ RespondedRevision(r) \in DOMAIN d.ContainerRevision
  /\ d.ContainerRevision[RespondedRevision(r)].name = r.resp[1].name
  /\ ProductsRead(d, r, FALSE)
       = {k \in d.ContainerRevision[RespondedRevision(r)].products :
            k \in DOMAIN d.ProductRevision}

\* The container part read by updateContainer is the one the draft in the
\* store gives, or the second query reads the products of the draft the
\* request saved.
OfOneDraft(d, r) ==
  \/ getUpdatedContainers(r.svc, d, r.id) = <<r.resp[1]>>
  \/ {k[1] : k \in ProductsRead(d, r, TRUE)}
       = {q \in r.found : getProducts(d, q) /= << >>}

\* C36: the response getProductsResponse assembles for approveContainerUpdate
\* or updateContainer describes one container revision or draft, whatever
\* runs between its two queries: when the products are about to be read, they
\* are the products of the revision or draft the container part was read from.
C36_ResponseOfOneRevision ==
  \A s \in DOMAIN reqs :
    BetweenQueries(reqs[s]) =>
      IF reqs[s].op = "approveContainerUpdate"
      THEN OfOneRevision(db, reqs[s])
      ELSE OfOneDraft(db, reqs[s])

(* --------------------- claims on GET /transactions/:id ----------------- *)
\* C37: getTransaction sends exactly one response per request on every path
\* (500, 404, forbidden or 200): once the handler has ended it has written
\* one status and body on res, and never a second one.
C37_OneResponsePerRequest ==
  http.pc = "done" => Len(http.sent) = 1

\* The user is the transaction's from, its createdBy, or the to of one of its
\* sub-transactions.
InvolvedIn(transaction, user) ==
  \/ transaction.fromId = user
  \/ transaction.createdById = user
  \/ \E i \in DOMAIN transaction.subTransactions : transaction.subTransactions[i].toId = user

\* C38: for a transaction that exists and is fetched, getTransaction answers
\* 200 with the transaction exactly when the user is its from, its createdBy
\* or the to of one of its sub-transactions, and forbidden otherwise; a
\* transaction without createdBy is readable by its from account.
C38_ReadableByInvolvedUsers ==
  (http.pc = "done" /\ http.transaction /= None) =>
    /\ http.sent /= << >>
    /\ IF InvolvedIn(led.Transaction[http.id], http.user)
       THEN http.sent[1] = [status |-> 200, body |-> "transaction"]
       ELSE http.sent[1].status = 401

(* ------------------------ claims on verifyContainer -------------------- *)
\* Product productId exists in store d and has a current revision.
HasCurrentRevision(d, productId) ==
  productId \in DOMAIN d.Product /\ d.Product[productId].currentRevision /= Null

\* C39: verifyContainer(request) is true exactly when the name is not empty
\* and every listed product id is of an existing product that has a current
\* revision; a request listing an unknown id or a never approved product is
\* invalid.
C39_VerifyContainerResolvesProducts ==
  Done(1, "verifyContainer") =>
    (reqs[1].resp[1]
       <=> /\ reqs[1].arg[1].name /= ""
           /\ \A productId \in reqs[1].arg[1].products : HasCurrentRevision(db, productId))

(* -------------------- claims on the active fine group ------------------ *)
\* User userId's reference to an active fine group is empty, or names an
\* existing UserFineGroup of that user that holds a Fine.
ActiveGroupExists(l, userId) ==
  \/ l.currentFines[userId] = Null
  \/ /\ l.currentFines[userId] \in DOMAIN l.UserFineGroup
     /\ l.UserFineGroup[l.currentFines[userId]].userId = userId
     /\ GroupFines(l, l.currentFines[userId]) /= {}

\* C40: after any sequence of handOutFines, deleteFine, waiveFines and
\* Transfers, no user's active-fine-group reference names a UserFineGroup
\* that no longer exists: it is empty, or an existing group of that user
\* holding at least one Fine; in particular it is empty after deleteFine
\* removed the group's last Fine and the group.
C40_NoDanglingActiveGroup ==
  freq.pc = "done" => \A u \in UserIds : ActiveGroupExists(led, u)
====
